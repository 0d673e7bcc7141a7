---- MODULE Routing ----
(***************************************************************************)
(* How the plugin turns a stored credential into what the host routes by   *)
(* (src/storage.go: buildAuthData and its helpers), and how model          *)
(* discovery turns that back into a request (src/models.go).  Pure         *)
(* operators.  A base URL is "api" or "cli" (the two known bases), one of  *)
(* these with a trailing slash, "custom", or "" when absent; a flag is     *)
(* what ParseBool makes of it; a token is the number of the exchange that  *)
(* issued it, 0 when absent.                                               *)
(***************************************************************************)
EXTENDS Naturals

Bases == {"", "api", "cli", "api/", "cli/", "custom"}
Flags == {"absent", "true", "false", "junk"}
CLIHeaders == {"X-XAI-Token-Auth", "x-grok-client-version", "x-grok-client-identifier",
               "User-Agent"}

Parses(flag) == flag \in {"true", "false"}
FlagOf(b) == IF b THEN "true" ELSE "false"

Trimmed(base) == IF base = "api/" THEN "api" ELSE IF base = "cli/" THEN "cli" ELSE base

\* The value that counts: the first one that is present.
FirstOf(a, b, absent) == IF a # absent THEN a ELSE b

-----------------------------------------------------------------------------
(* storage.go                                                              *)

\* A flag that is neither a bool nor parseable counts as false.
UsingAPI(storage) == storage.using_api = "true"

AuthBaseURL_Verbatim(storage) ==    \* Slip: a known base_url is taken as it is.
    IF storage.base_url # "" THEN Trimmed(storage.base_url)
    ELSE IF UsingAPI(storage) THEN "api" ELSE "cli"
AuthBaseURL(storage) ==
    IF Trimmed(storage.base_url) \notin {"", "api", "cli"} THEN Trimmed(storage.base_url)
    ELSE IF UsingAPI(storage) THEN "api" ELSE "cli"

Attributes_Keyed(storage) ==    \* Slip: api_key is filled in, as README.md:23 has it.
    [base_url |-> AuthBaseURL(storage), using_api |-> FlagOf(UsingAPI(storage)),
     auth_kind |-> "oauth", api_key |-> storage.access_token, access_token |-> 0,
     headers |-> CLIHeaders]
Attributes(storage) ==
    [base_url |-> AuthBaseURL(storage), using_api |-> FlagOf(UsingAPI(storage)),
     auth_kind |-> "oauth", api_key |-> 0, access_token |-> 0, headers |-> CLIHeaders]

Metadata(storage) ==
    [auth_kind |-> "oauth", api_key |-> 0, access_token |-> storage.access_token,
     refresh_token |-> storage.refresh_token, base_url |-> storage.base_url,
     token_endpoint |-> storage.token_endpoint,
     using_api |-> IF storage.using_api = "absent" THEN "absent"
                   ELSE FlagOf(UsingAPI(storage))]

\* The credential's own prefix, or the one of the plugin's configuration.
BuildAuthData(storage, fileName, pluginPrefix) ==
    [id |-> fileName, prefix |-> FirstOf(storage.prefix, pluginPrefix, ""),
     storage |-> storage, metadata |-> Metadata(storage), attributes |-> Attributes(storage)]

-----------------------------------------------------------------------------
(* models.go                                                               *)

\* The attributes, then the metadata, then the storage.
CredentialToken(auth) ==
    LET a == auth.attributes  m == auth.metadata IN
    FirstOf(a.api_key, FirstOf(a.access_token, FirstOf(m.access_token,
        FirstOf(m.api_key, auth.storage.access_token, 0), 0), 0), 0)

\* Only the storage's base URL is trimmed.
AuthString(auth) ==
    FirstOf(auth.attributes.base_url,
            FirstOf(auth.metadata.base_url, Trimmed(auth.storage.base_url), ""), "")

UsingAPIForModels(auth) ==
    LET a == auth.attributes  m == auth.metadata IN
    IF Parses(a.using_api) THEN a.using_api = "true"
    ELSE IF Parses(m.using_api) THEN m.using_api = "true"
    ELSE IF auth.storage.using_api # "absent" THEN UsingAPI(auth.storage)
    ELSE FirstOf(a.auth_kind, FirstOf(m.auth_kind, auth.storage.auth_kind, ""), "") # "oauth"

\* The base the models request goes to, and whether it identifies as the CLI.
ResolveModelsRoute(auth) ==
    IF AuthString(auth) \notin {"", "api", "cli"} THEN [base |-> AuthString(auth), cli |-> FALSE]
    ELSE IF UsingAPIForModels(auth) THEN [base |-> "api", cli |-> FALSE]
    ELSE [base |-> "cli", cli |-> TRUE]

\* The identity headers of the models request: those of the CLI route, and
\* whatever the header attributes say.
ModelsHeaders(auth) ==
    (IF ResolveModelsRoute(auth).cli THEN CLIHeaders ELSE {}) \cup auth.attributes.headers
====
