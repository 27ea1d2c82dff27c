--------------------------- MODULE MCSystemRoutes ---------------------------
EXTENDS SystemRoutes
MCPlatforms == {"linux", "mac", "dotnet"}
=============================================================================
