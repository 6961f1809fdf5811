CONSTANTS
  MaxStaticRedirects = 2
  MaxDynamicRedirects = 1
  MaxHeaderRules = 1
  MaxRouteRules = 2
  StaticSets <- OnePage
  Urls <- TheUrls
  RedirectLines <- TheRedirects
  HeaderLines <- TheHeaders
  RoutesDocs <- NoRoutesFile
  MaxLines = 2
  MaxHops = 3
  SiteHost = "site"
SPECIFICATION SiteSpec
CHECK_DEADLOCK FALSE
PROPERTY
  RewriteServesInPlace
