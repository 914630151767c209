------------------------------ MODULE Profiles ------------------------------
(***************************************************************************)
(* The network profiles: what a user agent says of its browser, and the    *)
(* TLS client hello and the request headers that are chosen for it         *)
(* (network/profiles.go, client-hello-ids.go, common-headers.go), with the *)
(* encodings that utils/httpx/decoder.go can undo.                         *)
(*                                                                         *)
(* A user agent is a function from the words the code looks for, those     *)
(* that it contains, to what stands between the last of them and the next  *)
(* full stop: its major version, where it is a version.  Of the headers    *)
(* the names are kept, and of the values those that differ between         *)
(* browsers: the referrers, languages, memory sizes and widths, which      *)
(* every browser gets in every combination, are left out.                  *)
(***************************************************************************)
EXTENDS Naturals, Sequences, SequencesExt

Has(userAgent, word) == word \in DOMAIN userAgent

\* The first of the cases whose word is contained, as a Go switch takes it.
FirstCase(userAgent, cases, default) ==
  LET i == SelectInSeq(cases, LAMBDA c : Has(userAgent, c.word))
  IN  IF i = 0 THEN default ELSE cases[i]

-----------------------------------------------------------------------------
(* detectBrowserInfo                                                       *)

Systems ==
  << [word |-> "Android",   os |-> "Android"], [word |-> "Windows",  os |-> "Windows"],
     [word |-> "Linux",     os |-> "Linux"],   [word |-> "iPhone",   os |-> "iOS"],
     [word |-> "Macintosh", os |-> "macOS"],   [word |-> "Mac OS X", os |-> "macOS"],
     [word |-> "iPad",      os |-> "iPadOS"] >>

\* "after": the word that the version follows.
Browsers ==
  << [word |-> "Firefox/", browser |-> "Firefox", after |-> "Firefox/"],
     [word |-> "Edg/",     browser |-> "Edge",    after |-> "Edg/"],
     [word |-> "Chrome/",  browser |-> "Chrome",  after |-> "Chrome/"],
     [word |-> "Safari/",  browser |-> "Safari",  after |-> "Version/"],
     [word |-> "OPR/",     browser |-> "Opera",   after |-> "OPR/"],
     [word |-> "Opera/",   browser |-> "Opera",   after |-> "Version/"],
     [word |-> "SamsungBrowser/", browser |-> "Samsung Browser",
      after |-> "SamsungBrowser/"] >>

OtherSystem  == [word |-> "", os |-> "Windows"]
OtherBrowser == [word |-> "", browser |-> "Chrome", after |-> "Version/"]

\* Without the word, Split returns the whole user agent: "Mozilla/5".
VersionAfter(userAgent, word) ==
  IF Has(userAgent, word) THEN userAgent[word] ELSE "Mozilla/5"

BrowserInfo(userAgent) ==
  LET b == FirstCase(userAgent, Browsers, OtherBrowser)
  IN  [browser |-> b.browser,
       version |-> VersionAfter(userAgent, b.after),
       os      |-> FirstCase(userAgent, Systems, OtherSystem).os,
       mobile  |-> Has(userAgent, "Mobile") \/ Has(userAgent, "Android")]

-----------------------------------------------------------------------------
(* pickLogicalTLSProfile                                                   *)

\* clientHelloIDs; that no browser is called "iOS" makes the last unreachable.
HelloVersions ==
  [Firefox |-> {"99", "102", "105", "120"},
   Chrome  |-> {"83", "87", "96", "102", "106", "120"},
   Edge    |-> {"85", "106"},
   Safari  |-> {"16"},
   iOS     |-> {"11", "12", "13", "14"}]

NoHello == [browser |-> "nil", version |-> ""]

LookUp(browser, version) ==
  IF browser \in DOMAIN HelloVersions /\ version \in HelloVersions[browser]
    THEN [browser |-> browser, version |-> version]
    ELSE NoHello

\* Mutant: an unknown version of a known browser has no fallback.
HelloOrNone(info) ==
  IF info.browser \in DOMAIN HelloVersions
    THEN LookUp(info.browser, info.version)
    ELSE LookUp("Chrome", "102")

\* "Fallback to Chrome 102 as it is the most adapative"
Hello(info) ==
  LET found == LookUp(info.browser, info.version)
  IN  IF found # NoHello THEN found ELSE LookUp("Chrome", "102")

-----------------------------------------------------------------------------
(* generateProfiles                                                        *)

AcceptEncodings ==
  << {"gzip", "deflate", "br"}, {"gzip", "deflate", "br", "zstd"},
     {"gzip", "deflate", "zstd"}, {"gzip", "deflate"} >>

\* The encodings that DecompressResponseBody has a reader for; another is read as it
\* is.  Its reader for "deflate" is that of raw flate, without the zlib header that
\* servers send: which of the two comes is not modelled.
Decodable == {"gzip", "deflate", "br", "zstd"}

Profile(userAgent, encodings) ==
  LET info == BrowserInfo(userAgent)
  IN  [hello     |-> Hello(info),
       browser   |-> info.browser,
       mobile    |-> info.mobile,
       encodings |-> IF info.browser = "Safari" THEN AcceptEncodings[1] ELSE encodings]

\* generateProfiles: the loops over headers that make no difference are left out.
GenerateProfiles(userAgents) ==
  {Profile(ua, AcceptEncodings[i]) : ua \in userAgents, i \in DOMAIN AcceptEncodings}

CommonHeaders ==
  {"User-Agent", "Accept-Language", "Accept-Encoding", "Accept", "Referer",
   "Referrer-Policy", "Connection", "Upgrade-Insecure-Requests", "Sec-Fetch-Site",
   "Sec-Fetch-Mode", "Sec-Fetch-Dest", "Cache-Control", "TE", "Pragma"}

ClientHints == {"Sec-Ch-UA", "Sec-Ch-UA-Mobile", "Sec-Ch-UA-Platform"}

\* GetFullHeaders, with what the profile's browser implements.
FullHeaders(profile) ==
  LET when(condition, names) == IF condition THEN names ELSE {}
      chromium == profile.browser \notin {"Firefox", "Safari"}
  IN  CommonHeaders
        \cup when(chromium, {"Device-Memory", "Sec-Fetch-User"})
        \cup when(profile.browser # "Firefox", ClientHints)
        \cup when(profile.mobile, {"Viewport-Width"})
=============================================================================
