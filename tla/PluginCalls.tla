---- MODULE PluginCalls ----
(***************************************************************************)
(* The plugin as its host sees it: calls through one C entry point, from   *)
(* several host threads at once (src/main.go, register.go).  Each call     *)
(* decodes its request, runs one handler and hands over one buffer, which  *)
(* the host frees.  The calls meet in pluginPrefix, a Go string (two       *)
(* words) that plugin.reconfigure writes and every new auth reads without  *)
(* a lock; and each of them may wait for the network: OIDC discovery, the  *)
(* device-code request, the token exchange, the account's model list.      *)
(* What auth.login.start and auth.login.poll do to the session store is    *)
(* LoginSessions' subject; what a refresh does to a credential,            *)
(* Credential's.                                                           *)
(***************************************************************************)
EXTENDS ModelMerge, Routing, FiniteSets

CONSTANTS
    Threads,         \* threads of the host
    Prefixes,        \* prefixes a file or the configuration may name; "" for none
    Blocks,          \* configuration blocks: the values of their "prefix:" lines
    Unquoted(_),     \* a line's value without comment, quotes and blanks
    Payloads         \* what the models endpoint may answer

ASSUME PrefixesAssumption ==
    /\ "" \in Prefixes
    /\ \A block \in Blocks : \A i \in DOMAIN block :
          Trim(block[i]) # "" => Unquoted(block[i]) \in Prefixes

\* A list is absent or a list; what an item says of thinking is never nil.
ASSUME PayloadsAssumption ==
    \A payload \in Payloads : \A list \in {payload.data, payload.models} \ {Absent} :
        /\ IsList(list)
        /\ \A i \in DOMAIN list : [zero_allowed |-> FALSE, levels |-> Levels(list[i])] # Absent

VARIABLES
    call,            \* what each thread is doing in the plugin
    pluginPrefix,    \* the two words of the string: its text and its length
    configured       \* history: the prefix the last finished reconfigure named

vars == <<call, pluginPrefix, configured>>

Words == {"text", "length"}
\* Endpoints by what validateOAuthEndpoint makes of them: https on x.ai, or not.
Documents == [device : {"accepted", "rejected"}, token : {"accepted", "rejected"}]

NoWords == [w \in Words |-> ""]
Idle == [pc |-> "idle", method |-> "none", prefix |-> "", words |-> {}, seen |-> NoWords,
         doc |-> Absent, calm |-> TRUE, reply |-> Absent]

Init ==
    /\ call = [t \in Threads |-> Idle]
    /\ configured \in Prefixes
    /\ pluginPrefix = [w \in Words |-> configured]

-----------------------------------------------------------------------------
(* Entry and exit                                                          *)

At(t, pc) == call[t].pc = pc
Configuring == \E t \in Threads : At(t, "config")

Enter(method, pc) == [Idle EXCEPT !.method = method, !.pc = pc]
\* The envelope is in the buffer, and the call is back at the host.
Replied(c, reply) ==
    [Idle EXCEPT !.method = c.method, !.pc = "replied", !.prefix = c.prefix,
                 !.calm = c.calm, !.reply = reply]
\* An error envelope, or a poll's status without an auth.
Error == [ok |-> FALSE]
Has(t, field) == At(t, "replied") /\ field \in DOMAIN call[t].reply

Respond(t, reply) ==
    /\ call' = [call EXCEPT ![t] = Replied(@, reply)]
    /\ UNCHANGED <<pluginPrefix, configured>>
Go(t, c) ==
    /\ call' = [call EXCEPT ![t] = c]
    /\ UNCHANGED <<pluginPrefix, configured>>

\* Answered from constants, or refused before anything happens: identifier and
\* shutdown; an unknown method, a malformed request, a file of another type, a
\* credential without the token the call needs, a poll too early, too late or for an
\* unknown login.
AnswerAtOnce(t) ==
    /\ At(t, "idle")
    /\ \E reply \in {Error, [ok |-> TRUE]} : Respond(t, reply)

\* cliproxyPluginFree
HostFree(t) == At(t, "replied") /\ Go(t, Idle)

-----------------------------------------------------------------------------
(* plugin.register, plugin.reconfigure                                     *)

\* The first "prefix:" line that has a value, if there is one; a quoted blank is one.
FirstSaid(block) ==
    {i \in DOMAIN block : Trim(block[i]) # "" /\ \A j \in 1..(i - 1) : Trim(block[j]) = ""}

\* Slip: the quotes of a quoted value stay.
YamlScalar_Quoted(block) ==
    IF FirstSaid(block) = {} THEN "" ELSE Trim(block[CHOOSE i \in FirstSaid(block) : TRUE])
YamlScalar(block) ==
    IF FirstSaid(block) = {} THEN "" ELSE Unquoted(block[CHOOSE i \in FirstSaid(block) : TRUE])

\* The host configures the plugin from one thread at a time.
Reconfigure(t) ==
    /\ At(t, "idle") /\ ~Configuring
    /\ \E block \in Blocks :
        call' = [u \in Threads |->
            IF u = t
            THEN [Enter("reconfigure", "config") EXCEPT !.prefix = YamlScalar(block),
                                                        !.words = Words]
            ELSE [call[u] EXCEPT !.calm = @ /\ ~At(u, "build") /\ ~Has(u, "prefix")]]
    /\ UNCHANGED <<pluginPrefix, configured>>

\* One word of the string after the other, in an order the compiler chooses.
StoreWord_SkipEmpty(t) ==    \* Slip: a configuration without a prefix changes nothing.
    LET c == call[t] IN
    /\ c.pc = "config"
    /\ \E w \in c.words :
        /\ pluginPrefix' = IF c.prefix = "" THEN pluginPrefix
                           ELSE [pluginPrefix EXCEPT ![w] = c.prefix]
        /\ call' = [call EXCEPT ![t] = IF c.words = {w} THEN Replied(c, [ok |-> TRUE])
                                       ELSE [c EXCEPT !.words = @ \ {w}]]
        /\ configured' = IF c.words = {w} THEN c.prefix ELSE configured
StoreWord(t) ==
    LET c == call[t] IN
    /\ c.pc = "config"
    /\ \E w \in c.words :
        /\ pluginPrefix' = [pluginPrefix EXCEPT ![w] = c.prefix]
        /\ call' = [call EXCEPT ![t] = IF c.words = {w} THEN Replied(c, [ok |-> TRUE])
                                       ELSE [c EXCEPT !.words = @ \ {w}]]
        /\ configured' = IF c.words = {w} THEN c.prefix ELSE configured

-----------------------------------------------------------------------------
(* auth.parse, and the auth at the end of auth.refresh and auth.login.poll *)

\* The string a reader got: no length, no text; words of two strings, neither.
StringOf(seen) ==
    IF seen["length"] = "" THEN ""
    ELSE IF seen["text"] = seen["length"] THEN seen["text"] ELSE "torn"

\* buildAuthData without a prefix in the storage. The auth is calm as long as no
\* reconfigure begins after, or overlaps, its reading of the string.
Build(c) == [c EXCEPT !.pc = "build", !.words = Words, !.doc = Absent, !.calm = ~Configuring]

Parse(t) ==
    /\ At(t, "idle")
    /\ \E own \in Prefixes :
        LET c == [Enter("parse", "build") EXCEPT !.prefix = own] IN
        Go(t, IF own = "" THEN Build(c) ELSE Replied(c, [ok |-> TRUE, prefix |-> own]))

ReadWord(t) ==
    LET c == call[t] IN
    /\ c.pc = "build"
    /\ \E w \in c.words :
        LET seen == [c.seen EXCEPT ![w] = pluginPrefix[w]] IN
        Go(t, IF c.words = {w} THEN Replied(c, [ok |-> TRUE, prefix |-> StringOf(seen)])
              ELSE [c EXCEPT !.seen = seen, !.words = @ \ {w}])

-----------------------------------------------------------------------------
(* auth.login.start, auth.login.poll and auth.refresh                      *)

LoginStart(t) == At(t, "idle") /\ Go(t, Enter("login", "discover"))

\* A poll that is admitted; its session has the endpoint (see LoginSessions).
LoginPoll(t) == At(t, "idle") /\ Go(t, Enter("poll", "token"))

\* With an endpoint in storage or metadata, or without. Each call has a client of
\* its own, so the discovery cache is always empty.
Refresh(t) ==
    /\ At(t, "idle")
    /\ \E pc \in {"discover", "token"} : Go(t, Enter("refresh", pc))

\* Slip: only the first endpoint is validated.
Valid_DeviceOnly(doc) == doc.device = "accepted"
\* validateOAuthEndpoint, on both.
Valid(doc) == doc.device = "accepted" /\ doc.token = "accepted"

DiscoverAnswer(t) ==
    /\ At(t, "discover")
    /\ \E doc \in Documents :
        IF ~Valid(doc) THEN Respond(t, Error)
        ELSE Go(t, [call[t] EXCEPT
                      !.doc = doc,
                      !.pc = IF call[t].method = "login" THEN "device" ELSE "token"])

\* An answer without a device code, a user code or a URI is refused.
DeviceAnswer(t) ==
    /\ At(t, "device")
    /\ \E complete \in BOOLEAN :
        IF ~complete THEN Respond(t, Error)
        ELSE Respond(t, [ok |-> TRUE, token_endpoint |-> call[t].doc.token])

\* The new auth has no prefix of its own (see Credential).
TokenAnswer(t) == At(t, "token") /\ Go(t, Build(call[t]))

-----------------------------------------------------------------------------
(* model.static, model.for_auth                                            *)

ModelsForAuth(t) == At(t, "idle") /\ Go(t, Enter("models", "models"))

\* model.static lists nothing: a model is listed for an account or not at all.
StaticModels(t) ==
    At(t, "idle") /\ Respond(t, [ok |-> TRUE, remote |-> <<>>, models |-> <<>>])

\* The answer's list: data, or models without it; null counts as absent.
Listing(payload) == IF payload.data # Absent THEN payload.data ELSE payload.models

ModelsAnswer(t) ==
    /\ At(t, "models")
    /\ \E payload \in Payloads :
        LET remote == Listing(payload) IN
        Respond(t, IF remote = Absent THEN Error
                   ELSE [ok |-> TRUE, remote |-> remote, models |-> MergeModels(remote)])

-----------------------------------------------------------------------------
(* Requests that fail                                                      *)

\* Slip: an account whose list cannot be had is given the catalog's.
RequestFail_Catalog(t) ==
    /\ call[t].pc \in {"discover", "device", "token", "models"}
    /\ \E key \in DOMAIN Catalog :
        Respond(t, IF At(t, "models")
                   THEN [ok |-> TRUE, remote |-> <<>>, models |-> <<Catalog[key]>>]
                   ELSE Error)
\* No connection, an error status, a body too long or not decodable.
RequestFail(t) ==
    /\ call[t].pc \in {"discover", "device", "token", "models"}
    /\ Respond(t, Error)

\* Where the HTTP client has a timeout: all but the models request.
Timed_DiscoveryOnly == {"discover"}    \* Slip: the exchanges use the models client.
Timed == {"discover", "device", "token"}

Timeout(t) == call[t].pc \in Timed /\ Respond(t, Error)

-----------------------------------------------------------------------------
Step(t) ==
    \/ AnswerAtOnce(t) \/ HostFree(t)
    \/ Reconfigure(t) \/ StoreWord(t) \/ Parse(t) \/ ReadWord(t)
    \/ LoginStart(t) \/ LoginPoll(t) \/ Refresh(t)
    \/ DiscoverAnswer(t) \/ DeviceAnswer(t) \/ TokenAnswer(t)
    \/ StaticModels(t) \/ ModelsForAuth(t) \/ ModelsAnswer(t)
    \/ RequestFail(t) \/ Timeout(t)

Next == \E t \in Threads : Step(t)

\* The Go runtime schedules a call in flight, and a timeout fires. Nothing is
\* assumed of the host or of the network.
Fairness == \A t \in Threads :
    WF_vars(StoreWord(t)) /\ WF_vars(ReadWord(t)) /\ WF_vars(Timeout(t))

Spec == Init /\ [][Next]_vars
FairSpec == Spec /\ Fairness

-----------------------------------------------------------------------------
(* Properties                                                              *)

\* Every call is at a point of its handler, and every word of a prefix is one that
\* a file or the configuration named.
TypeOK ==
    /\ pluginPrefix \in [Words -> Prefixes] /\ configured \in Prefixes
    /\ \A t \in Threads : LET c == call[t] IN
        /\ c.pc \in {"idle", "config", "build", "discover", "device", "token", "models", "replied"}
        /\ c.words \subseteq Words /\ c.seen \in [Words -> Prefixes]
        /\ c.prefix \in Prefixes /\ c.calm \in BOOLEAN
        /\ Has(t, "prefix") => c.reply.prefix \in Prefixes \cup {"torn"}

\* An auth that is built while no reconfigure runs carries its file's prefix, else
\* the one configured last, be it empty and the call older than the configuration.
\* (One whose reading overlaps a reconfigure may carry either prefix, or the text of
\* one with the length of the other.)
PrefixCurrent == \A t \in Threads :
    Has(t, "prefix") /\ call[t].calm
        => call[t].reply.prefix = FirstOf(call[t].prefix, configured, "")

\* No request leaves for a discovered endpoint, and no login starts with one, that
\* was not validated: one bad endpoint spoils its whole document, so a login whose
\* polls could not exchange anything is never begun.
OnlyValidEndpoints == \A t \in Threads :
    /\ At(t, "device") => call[t].doc.device = "accepted"
    /\ At(t, "token") /\ call[t].doc # Absent => call[t].doc.token = "accepted"
    /\ Has(t, "token_endpoint") => call[t].reply.token_endpoint = "accepted"

\* The items whose key no earlier item has, in the order of the list.
Firsts(remote) ==
    {i \in DOMAIN remote :
        Key(remote[i]) # "" /\ \A j \in 1..(i - 1) : Key(remote[j]) # Key(remote[i])}
\* Where the model of such an item stands in the answer.
Place(remote, i) == Cardinality({j \in Firsts(remote) : j <= i})

\* The models of an account are those its list names, each once, whatever the case
\* of its ID, under the ID that came first and in the list's order; the catalog
\* adds none, not even when the list could not be had.
FirstListingWins == \A t \in Threads :
    Has(t, "models") =>
        LET remote == call[t].reply.remote  models == call[t].reply.models IN
        /\ Len(models) = Cardinality(Firsts(remote))
        /\ \A i \in Firsts(remote) : models[Place(remote, i)].id = Id(remote[i])

\* The catalog says of a model only what the list leaves open: names and context
\* length if the list has none, thinking if it names no level and does not rule
\* reasoning out. What neither says is the ID, zero or nil. The owner is never the
\* catalog's: a model whose owner the list leaves open is owned by "xAI".
Says(item, model, static) ==
    /\ model.owned_by = FirstOf(item.owned_by, "xAI", "")
    /\ model.name = FirstOf(item.name, FirstOf(static.name, Id(item), ""), "")
    /\ model.display_name = FirstOf(item.name, FirstOf(static.display_name, Id(item), ""), "")
    /\ model.context_length =
          FirstOf(item.context_window, FirstOf(item.context_length, static.context_length, 0), 0)
    /\ model.modalities = static.modalities
    /\ (model.thinking = Absent) = (item.reasons = "no"
                                      \/ (Levels(item) = <<>> /\ static.thinking = Absent))
    /\ model.thinking # Absent =>
          model.thinking.levels = IF Levels(item) = <<>> THEN static.thinking.levels
                                  ELSE Levels(item)

Unknown == [name |-> "", display_name |-> "", context_length |-> 0,
            thinking |-> Absent, modalities |-> Absent]

CatalogFillsGaps == \A t \in Threads :
    Has(t, "models") =>
        LET remote == call[t].reply.remote IN
        \A i \in Firsts(remote) :
            Says(remote[i], call[t].reply.models[Place(remote, i)],
                 IF Key(remote[i]) \in DOMAIN Catalog THEN Catalog[Key(remote[i])] ELSE Unknown)

\* Whatever upstream does, a login start, a poll, a refresh, a parse and a reconfigure
\* come back to the host: no request of theirs outlives its client's timeout.
EveryOAuthCallReturns == \A t \in Threads :
    call[t].pc \in {"discover", "device", "token", "build", "config"} ~> At(t, "replied")

\* oauth.go: "The lifetime is bounded by the request context", of model.for_auth.
EveryModelsCallReturns == \A t \in Threads : At(t, "models") ~> At(t, "replied")
====
