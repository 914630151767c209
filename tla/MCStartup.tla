----------------------------- MODULE MCStartup ------------------------------
\* Instance of Startup for TLC: what the files may hold.
EXTENDS Startup, TLC

MCProxyFiles ==
  { <<>>, <<"proxy", "proxy">>, <<"proxy", "blank">>, <<"invalid", "proxy">> }

firefox == "Firefox/" :> "120" @@ "Windows" :> ""
newFirefox == "Firefox/" :> "133" @@ "Linux" :> ""
chrome  == "Chrome/" :> "120" @@ "Safari/" :> "537" @@ "Windows" :> ""
opera   == "Chrome/" :> "106" @@ "Safari/" :> "537" @@ "OPR/" :> "92" @@ "Linux" :> ""
oldOpera == "Opera/" :> "9" @@ "Version/" :> "12" @@ "Windows" :> ""
edge    == "Edg/" :> "106" @@ "Chrome/" :> "106" @@ "Safari/" :> "537" @@ "Windows" :> ""
samsung == "SamsungBrowser/" :> "23" @@ "Chrome/" :> "115" @@ "Safari/" :> "537"
             @@ "Mobile" :> "" @@ "Android" :> "" @@ "Linux" :> ""
safari  == "Safari/" :> "605" @@ "Version/" :> "16" @@ "Macintosh" :> "" @@ "Mac OS X" :> ""
iPhone  == "Safari/" :> "604" @@ "Version/" :> "17" @@ "iPhone" :> "" @@ "Mac OS X" :> ""
             @@ "Mobile" :> ""
chromeOnIOS == "Safari/" :> "604" @@ "iPhone" :> "" @@ "Mac OS X" :> "" @@ "Mobile" :> ""
unknown == "Linux" :> ""

MCUserAgentFiles ==
  { <<>>, <<BlankLine, BlankLine>>, <<safari, BlankLine, newFirefox>>,
    <<firefox, chrome, opera, oldOpera, edge, samsung, safari, iPhone, chromeOnIOS, unknown>> }
=============================================================================
