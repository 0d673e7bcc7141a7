---- MODULE Credential ----
(***************************************************************************)
(* The life of one credential: its file, what the host keeps in memory of  *)
(* it, and the calls that move data between them: auth.parse, auth.refresh *)
(* (with its exchange in flight), plugin.reconfigure, the user's edits of  *)
(* the file, and the refresh of the host's native executor, which renews   *)
(* tokens in the auth metadata only (external, README "Storage             *)
(* compatibility").                                                        *)
(***************************************************************************)
EXTENDS Routing, FiniteSets

CONSTANTS
    Prefixes,        \* what a prefix field may hold; "" when absent
    MaxGrants,       \* bound: exchanges the token endpoint grants
    MaxEdits         \* bound: edits of the file, and changes of the configuration

ASSUME CredentialAssumption == "" \in Prefixes /\ {MaxGrants, MaxEdits} \subseteq Nat

VARIABLES
    file,            \* the JSON of the credential file
    names,           \* the names of the credential files of this account
    auth,            \* the host's auth, as built by the last parse, login or refresh
    call,            \* the auth.refresh call in flight
    pluginPrefix,    \* the plugin's configured prefix
    grants,          \* exchanges granted so far; their numbers name the tokens
    valid,           \* the refresh tokens the endpoint accepts
    unheard,         \* history: those rotated away in an answer the host has not got
    received,        \* history: the access token of the last answer the host got
    named,           \* history: no request left both the file and the account unnamed
    edits

vars == <<file, names, auth, call, pluginPrefix, grants, valid, unheard, received, edits,
          named>>

NoToken == [access_token |-> 0, refresh_token |-> 0, identity |-> FALSE]
NoCall(storage) ==
    [pc |-> "none", id |-> "", storage |-> storage, endpoint |-> FALSE, token |-> NoToken]

\* The name made from email or subject, or from the clock when both are missing.
CredentialFileName(storage) == IF storage.identity THEN "account" ELSE "timestamp"

\* A fresh credential: no routing choice survives in it but the default base.
BuildTokenStorage(token, endpoint) ==
    [access_token |-> token.access_token, refresh_token |-> token.refresh_token,
     identity |-> token.identity, base_url |-> "api", token_endpoint |-> endpoint,
     auth_kind |-> "oauth", using_api |-> "absent", prefix |-> ""]

\* The tokens of a device login: x.ai names the account in each.
LoginToken(n) == [access_token |-> n, refresh_token |-> n, identity |-> TRUE]

\* After a login: the credential is on disk and in the host's memory.
Init ==
    LET storage == BuildTokenStorage(LoginToken(1), TRUE) IN
    /\ file = storage
    /\ names = {CredentialFileName(storage)}
    /\ pluginPrefix \in Prefixes
    /\ auth = BuildAuthData(storage, "account", pluginPrefix)
    /\ call = NoCall(storage)
    /\ grants = 1 /\ received = 1 /\ valid = {1} /\ unheard = {} /\ edits = 0
    /\ named = TRUE

\* The user logs the same account in again, even while a refresh is in flight: the
\* new credential takes the place of the old one, whose tokens stay valid.
Login ==
    LET storage == BuildTokenStorage(LoginToken(grants + 1), TRUE)
        name == CredentialFileName(storage) IN
    /\ grants < MaxGrants
    /\ grants' = grants + 1 /\ received' = grants + 1
    /\ valid' = valid \cup {grants + 1}
    /\ auth' = BuildAuthData(storage, name, pluginPrefix)
    /\ file' = storage
    /\ names' = names \cup {name}
    /\ UNCHANGED <<call, pluginPrefix, unheard, edits, named>>

\* The names the host may send along with a credential: the ID it was given, which is
\* the file's name, or none.  An ID that does not end in .json is treated like none.
SentNames == {auth.id, ""}

ParsedName(fileName, storage) == FirstOf(fileName, CredentialFileName(storage), "")

\* auth.parse of the file, at startup or when the host sees it change.
Parse ==
    /\ \E fileName \in SentNames :
        /\ auth' = BuildAuthData(file, ParsedName(fileName, file), pluginPrefix)
        /\ named' = (named /\ (fileName # "" \/ file.identity))
    /\ UNCHANGED <<file, names, call, pluginPrefix, grants, valid, unheard, received, edits>>

\* The user changes a routing field, or drops what an older release did not write.
Edit ==
    /\ edits < MaxEdits
    /\ edits' = edits + 1
    /\ \/ \E p \in Prefixes : file' = [file EXCEPT !.prefix = p]
       \/ \E b \in Bases : file' = [file EXCEPT !.base_url = b]
       \/ \E f \in Flags : file' = [file EXCEPT !.using_api = f]
       \/ file' = [file EXCEPT !.token_endpoint = FALSE, !.auth_kind = ""]
    /\ UNCHANGED <<names, auth, call, pluginPrefix, grants, valid, unheard, received, named>>

\* plugin.reconfigure
SetPluginConfig(prefix) ==
    /\ edits < MaxEdits
    /\ edits' = edits + 1
    /\ pluginPrefix' = prefix
    /\ UNCHANGED <<file, names, auth, call, grants, valid, unheard, received, named>>

-----------------------------------------------------------------------------
(* auth.refresh                                                            *)

\* The storage the host sends along is the one of its auth; without an endpoint
\* in storage or metadata, discovery finds one for this exchange only.
RefreshSend ==
    /\ call.pc = "none"
    /\ auth.storage.refresh_token # 0
    /\ \E id \in SentNames :
        call' = [pc |-> "sent", id |-> id, storage |-> auth.storage,
                 endpoint |-> auth.storage.token_endpoint \/ auth.metadata.token_endpoint,
                 token |-> NoToken]
    /\ UNCHANGED <<file, names, auth, pluginPrefix, grants, valid, unheard, received, edits,
                   named>>

\* The endpoint grants the exchange; it may rotate the refresh token, and leaves
\* out a token it did not rotate; it may leave out the id_token.
Grant ==
    /\ call.pc = "sent" /\ call.storage.refresh_token \in valid
    /\ grants < MaxGrants
    /\ grants' = grants + 1
    /\ \E rotate, identity \in BOOLEAN :
        /\ IF rotate
           THEN /\ valid' = (valid \ {call.storage.refresh_token}) \cup {grants + 1}
                /\ unheard' = unheard \cup {call.storage.refresh_token}
           ELSE UNCHANGED <<valid, unheard>>
        /\ call' = [call EXCEPT !.pc = "answered",
                                !.token = [access_token |-> grants + 1,
                                           refresh_token |-> IF rotate THEN grants + 1 ELSE 0,
                                           identity |-> identity]]
    /\ UNCHANGED <<file, names, auth, pluginPrefix, received, edits, named>>

\* Discovery or the exchange failed, or the refresh token is not accepted.
RefreshFail ==
    /\ call.pc = "sent"
    /\ call' = NoCall(auth.storage)
    /\ UNCHANGED <<file, names, auth, pluginPrefix, grants, valid, unheard, received, edits,
                   named>>

\* The exchange was granted, its answer never arrived.
RefreshLost ==
    /\ call.pc = "answered"
    /\ call' = NoCall(auth.storage)
    /\ UNCHANGED <<file, names, auth, pluginPrefix, grants, valid, unheard, received, edits,
                   named>>

\* Slip: a token the endpoint left out is not carried over.
RolledForward_NoRefreshToken(c) ==
    [BuildTokenStorage(c.token, c.endpoint) EXCEPT
        !.using_api = c.storage.using_api,
        !.base_url = IF c.storage.base_url = "custom" THEN "custom" ELSE @]
\* Slip: the routing fields are those of a fresh login.
RolledForward_NoRouting(c) ==
    [BuildTokenStorage(c.token, c.endpoint) EXCEPT
        !.refresh_token = FirstOf(@, c.storage.refresh_token, 0),
        !.base_url = IF c.storage.base_url = "custom" THEN "custom" ELSE @]
\* The storage of the refreshed credential.
RolledForward(c) ==
    [BuildTokenStorage(c.token, c.endpoint) EXCEPT
        !.refresh_token = FirstOf(@, c.storage.refresh_token, 0),
        !.using_api = c.storage.using_api,
        !.base_url = IF c.storage.base_url = "custom" THEN "custom" ELSE @]

\* Slip: the file is named after the identity of the new tokens.
RefreshedName_OfIdentity(id, storage) == CredentialFileName(storage)
\* An auth ID that ends in .json is kept; without one the file gets a new name.
RefreshedName(id, storage) ==
    IF id \in {"account", "timestamp"} THEN id ELSE CredentialFileName(storage)

\* The plugin answers, and the host keeps and saves what it answered.
RefreshDone ==
    LET storage == RolledForward(call)
        name == RefreshedName(call.id, storage) IN
    /\ call.pc = "answered"
    /\ auth' = BuildAuthData(storage, name, pluginPrefix)
    /\ file' = storage
    /\ names' = names \cup {name}
    /\ call' = NoCall(storage)
    /\ received' = call.token.access_token
    /\ unheard' = IF call.token.refresh_token = 0 THEN unheard
                  ELSE unheard \ {call.storage.refresh_token}
    /\ named' = (named /\ (call.id # "" \/ storage.identity))
    /\ UNCHANGED <<pluginPrefix, grants, valid, edits>>

\* XAIExecutor.Refresh, which the host runs while no auth.refresh is under way:
\* it takes the refresh token from the metadata, and renews metadata and file.
NativeRefresh ==
    /\ call.pc = "none" /\ auth.metadata.refresh_token \in valid
    /\ grants < MaxGrants
    /\ grants' = grants + 1 /\ received' = grants + 1
    /\ \E token \in {auth.metadata.refresh_token, grants + 1} :
        /\ valid' = (valid \ {auth.metadata.refresh_token}) \cup {token}
        /\ auth' = [auth EXCEPT !.metadata.access_token = grants + 1,
                                !.metadata.refresh_token = token]
        /\ file' = [file EXCEPT !.access_token = grants + 1, !.refresh_token = token]
    /\ UNCHANGED <<names, call, pluginPrefix, unheard, edits, named>>

Next ==
    \/ Login \/ Parse \/ Edit \/ \E p \in Prefixes : SetPluginConfig(p)
    \/ RefreshSend \/ Grant \/ RefreshFail \/ RefreshLost \/ RefreshDone
    \/ NativeRefresh

Spec == Init /\ [][Next]_vars

-----------------------------------------------------------------------------
(* Properties                                                              *)

Issued == Nat \ {0}
Storages ==
    [access_token : Issued, refresh_token : Issued, identity : BOOLEAN, base_url : Bases,
     token_endpoint : BOOLEAN, auth_kind : {"", "oauth"}, using_api : Flags,
     prefix : Prefixes]
Auths ==
    [id : {"account", "timestamp"}, prefix : Prefixes, storage : Storages,
     metadata : [auth_kind : {"oauth"}, api_key : Nat, access_token : Issued,
                 refresh_token : Issued, base_url : Bases, token_endpoint : BOOLEAN,
                 using_api : {"absent", "true", "false"}],
     attributes : [base_url : Bases \ {""}, using_api : {"true", "false"},
                   auth_kind : {"oauth"}, api_key : Nat, access_token : Nat,
                   headers : SUBSET CLIHeaders]]
Calls ==
    [pc : {"none", "sent", "answered"}, id : {"", "account", "timestamp"},
     storage : Storages, endpoint : BOOLEAN,
     token : [access_token : Nat, refresh_token : Nat, identity : BOOLEAN]]

\* Every copy of the credential, also the one a refresh is about to replace, has both
\* of its tokens, whatever the answers left out.
TypeOK ==
    /\ file \in Storages /\ auth \in Auths /\ call \in Calls
    /\ names \subseteq {"account", "timestamp"} /\ pluginPrefix \in Prefixes
    /\ grants \in Issued /\ received \in Issued
    /\ valid \subseteq Issued /\ unheard \subseteq Issued /\ edits \in Nat
    /\ named \in BOOLEAN

\* However logins, parses, refreshes of the plugin and of the native executor follow
\* each other, model discovery sends the access token the host was given last: no
\* stale copy in the attributes or in the storage shadows the metadata.
FreshBearer == CredentialToken(auth) = received

\* The refresh token the native executor will use, and the one on disk, are accepted
\* by the endpoint, rotated or not, left out of the answer or not. The one way to
\* lose one is an answer that never comes; the next login makes up for that. So is the
\* one in the storage copy, which auth.refresh will use, until the native executor
\* renews the metadata: only then the copy, access token and all, is behind.
StaysRefreshable ==
    /\ {auth.metadata.refresh_token, file.refresh_token} \subseteq valid \cup unheard
    /\ auth.storage.access_token = received
          => auth.storage.refresh_token \in valid \cup unheard

\* An auth the host kept without its routing attributes.
Bare(a) == [a EXCEPT !.attributes = [base_url |-> "", using_api |-> "", auth_kind |-> "",
                                     api_key |-> 0, access_token |-> 0, headers |-> {}]]

\* Model discovery asks the base the host routes inference to, with its `cli` set
\* exactly for the CLI proxy, and finds the same route from the metadata alone when
\* the file's base_url has no trailing slash (the metadata keeps the slash).
RouteAgrees ==
    LET route == ResolveModelsRoute(auth) IN
    /\ route.base = auth.attributes.base_url
    /\ route.cli = (route.base = "cli")
    /\ Trimmed(auth.metadata.base_url) = auth.metadata.base_url
          => ResolveModelsRoute(Bare(auth)) = route

\* The host receives the answer of the refresh in flight.
Delivered == call.pc = "answered" /\ auth'.metadata.access_token = call.token.access_token

\* A refresh never moves the credential to another route than the one its
\* storage asked for when the refresh began.
RefreshKeepsRoute ==
    [][Delivered =>
         ResolveModelsRoute(auth') = ResolveModelsRoute(BuildAuthData(call.storage, "", ""))]_vars

\* One account keeps one credential file, whatever the refreshed tokens say of it, as
\* long as every request names the file, or its credential the account: refreshing a
\* credential that lost its identity without its ID would name a new one by the clock.
OneFile == named => Cardinality(names) = 1

\* auth.go: "Preserve user-edited routing fields"; README: the credential prefix
\* controls the served model IDs.
RefreshKeepsPrefix ==
    [][Delivered /\ call.storage.prefix # "" =>
         auth'.prefix = call.storage.prefix]_vars

\* README: "using_api": true routes to api.x.ai with no CLI identity headers.
NoCLIHeadersOnAPI ==
    ResolveModelsRoute(auth).base = "api" => ModelsHeaders(auth) \cap CLIHeaders = {}
====
