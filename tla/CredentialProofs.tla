---- MODULE CredentialProofs ----
(***************************************************************************)
(* What Credential guarantees for every set of prefixes and any number of  *)
(* logins, refreshes, parses and edits: well-formed copies, the bearer the *)
(* host was given last, a refresh token the endpoint accepts, one file,    *)
(* and one route that refreshes do not move.                               *)
(***************************************************************************)
EXTENDS Credential, FiniteSetTheorems, TLAPS

FileNames == {"account", "timestamp"}

-----------------------------------------------------------------------------
(* Lemmas about the operators                                              *)

\* A storage made of whole tokens is well-formed.
LEMMA BuildTokenStorageType ==
    ASSUME NEW token \in [access_token : Issued, refresh_token : Issued, identity : BOOLEAN],
           NEW endpoint \in BOOLEAN
    PROVE BuildTokenStorage(token, endpoint) \in Storages
BY CredentialAssumption DEF BuildTokenStorage, Storages, Bases, Flags

\* The tokens of a login are whole.
LEMMA LoginStorage ==
    ASSUME NEW n \in Issued
    PROVE LET storage == BuildTokenStorage(LoginToken(n), TRUE) IN
          /\ storage \in Storages
          /\ storage.access_token = n /\ storage.refresh_token = n /\ storage.identity = TRUE
<1>1. LoginToken(n) \in [access_token : Issued, refresh_token : Issued, identity : BOOLEAN]
      BY DEF LoginToken
<1>2. BuildTokenStorage(LoginToken(n), TRUE) \in Storages BY <1>1, BuildTokenStorageType
<1> QED BY <1>2 DEF BuildTokenStorage, LoginToken

\* The base the host routes to is never empty.
LEMMA AuthBaseURLType ==
    ASSUME NEW storage \in Storages
    PROVE AuthBaseURL(storage) \in Bases \ {""}
BY DEF AuthBaseURL, Trimmed, UsingAPI, Storages, Bases, Flags

\* What buildAuthData makes of a well-formed storage is a well-formed auth with its
\* tokens in the metadata and none in the attributes.
LEMMA BuildAuthDataType ==
    ASSUME NEW storage \in Storages, NEW name \in FileNames, NEW prefix \in Prefixes
    PROVE LET a == BuildAuthData(storage, name, prefix) IN
          /\ a \in Auths
          /\ a.id = name /\ a.storage = storage
          /\ a.metadata.access_token = storage.access_token
          /\ a.metadata.refresh_token = storage.refresh_token
<1>1. Metadata(storage) \in
        [auth_kind : {"oauth"}, api_key : Nat, access_token : Issued,
         refresh_token : Issued, base_url : Bases, token_endpoint : BOOLEAN,
         using_api : {"absent", "true", "false"}]
      BY DEF Metadata, Storages, UsingAPI, FlagOf, Issued
<1>2. Attributes(storage) \in
        [base_url : Bases \ {""}, using_api : {"true", "false"}, auth_kind : {"oauth"},
         api_key : Nat, access_token : Nat, headers : SUBSET CLIHeaders]
      BY AuthBaseURLType DEF Attributes, FlagOf, UsingAPI
<1>3. FirstOf(storage.prefix, prefix, "") \in Prefixes BY DEF FirstOf, Storages
<1> QED BY <1>1, <1>2, <1>3 DEF BuildAuthData, Auths, FileNames, Metadata

\* A refresh rolls the access token forward and keeps the refresh token the answer
\* left out, using_api, and a base_url of the user's own.
LEMMA RolledForwardIs ==
    ASSUME NEW c \in Calls, c.token.access_token \in Issued
    PROVE LET storage == RolledForward(c) IN
          /\ storage \in Storages
          /\ storage.access_token = c.token.access_token
          /\ storage.refresh_token = FirstOf(c.token.refresh_token, c.storage.refresh_token, 0)
          /\ storage.identity = c.token.identity
          /\ storage.using_api = c.storage.using_api
          /\ storage.base_url = IF c.storage.base_url = "custom" THEN "custom" ELSE "api"
<1> DEFINE fresh == BuildTokenStorage(c.token, c.endpoint)
           refresh == FirstOf(c.token.refresh_token, c.storage.refresh_token, 0)
           base == IF c.storage.base_url = "custom" THEN "custom" ELSE fresh.base_url
<1>1. c.storage \in Storages /\ c.token.refresh_token \in Nat BY DEF Calls
<1>2. /\ fresh \in [access_token : Nat, refresh_token : Nat, identity : BOOLEAN,
                     base_url : Bases, token_endpoint : BOOLEAN,
                     auth_kind : {"", "oauth"}, using_api : Flags, prefix : Prefixes]
      /\ fresh.access_token = c.token.access_token /\ fresh.base_url = "api"
      /\ fresh.refresh_token = c.token.refresh_token /\ fresh.identity = c.token.identity
      BY CredentialAssumption DEF BuildTokenStorage, Calls, Bases, Flags
<1>3. refresh \in Issued BY <1>1 DEF FirstOf, Issued, Storages
<1>4. c.storage.using_api \in Flags /\ base \in Bases
      BY <1>1, <1>2 DEF Storages, Bases
<1>5. RolledForward(c) = [fresh EXCEPT !.refresh_token = refresh,
                                       !.using_api = c.storage.using_api, !.base_url = base]
      BY <1>2 DEF RolledForward
<1> HIDE DEF fresh, refresh
<1> QED BY <1>2, <1>3, <1>4, <1>5 DEF Storages, refresh

-----------------------------------------------------------------------------
(* The inductive invariant                                                 *)

\* What was issued has a number up to `grants`; the answer of a refresh is one the
\* host has not got, and leaves the host with a refresh token that is accepted.
AnswerInv ==
    /\ received <= grants
    /\ call.pc = "answered" =>
        /\ call.token.access_token \in 1..grants /\ call.token.access_token # received
        /\ FirstOf(call.token.refresh_token, call.storage.refresh_token, 0) \in valid

\* File and metadata hold the tokens the host was given last, the attributes none; the
\* storage copy holds tokens that were issued, and is behind when not the last ones.
CopiesInv ==
    /\ file.access_token = received /\ auth.metadata.access_token = received
    /\ auth.attributes = Attributes(auth.storage)
    /\ {auth.metadata.refresh_token, file.refresh_token} \subseteq valid \cup unheard
    /\ auth.storage.access_token <= grants
    /\ auth.storage.access_token = received
          => auth.storage.refresh_token \in valid \cup unheard

\* The routing half of the metadata is the one of the storage it was made of.
RouteInv ==
    LET m == auth.metadata  made == Metadata(auth.storage) IN
    m.base_url = made.base_url /\ m.using_api = made.using_api

\* While the host names it, the credential is the account's, also in a call under way.
NameInv ==
    named => /\ names = {"account"} /\ auth.id = "account"
             /\ call.id \in {"account", ""}

CredentialInv == TypeOK /\ AnswerInv /\ CopiesInv /\ RouteInv /\ NameInv

\* An auth made of a storage agrees with it.
LEMMA BuiltAgrees ==
    ASSUME NEW storage \in Storages, NEW name, NEW prefix,
           auth' = BuildAuthData(storage, name, prefix)
    PROVE auth'.attributes = Attributes(auth'.storage) /\ RouteInv'
BY DEF BuildAuthData, RouteInv

\* The credential as a login leaves it.
LEMMA InitInv == Init => CredentialInv
<1> SUFFICES ASSUME Init PROVE CredentialInv OBVIOUS
<1> DEFINE storage == BuildTokenStorage(LoginToken(1), TRUE)
<1>1. 1 \in Issued BY DEF Issued
<1>2. /\ storage \in Storages
      /\ storage.access_token = 1 /\ storage.refresh_token = 1 /\ storage.identity = TRUE
      BY <1>1, LoginStorage
<1> HIDE DEF storage
<1>3. /\ file = storage /\ names = {CredentialFileName(storage)} /\ pluginPrefix \in Prefixes
      /\ auth = BuildAuthData(storage, "account", pluginPrefix) /\ call = NoCall(storage)
      /\ grants = 1 /\ received = 1 /\ valid = {1} /\ unheard = {} /\ edits = 0
      /\ named = TRUE
      BY DEF Init, storage
<1>4. /\ auth \in Auths /\ auth.id = "account" /\ auth.storage = storage
      /\ auth.metadata.access_token = 1 /\ auth.metadata.refresh_token = 1
      BY <1>2, <1>3, BuildAuthDataType DEF FileNames
<1>5. call \in Calls /\ call.pc = "none" /\ call.id = ""
      BY <1>2, <1>3 DEF NoCall, NoToken, Calls
<1>6. names = {"account"} BY <1>2, <1>3 DEF CredentialFileName
<1>7. TypeOK BY <1>1, <1>2, <1>3, <1>4, <1>5, <1>6 DEF TypeOK
<1>8. auth.attributes = Attributes(auth.storage) /\ RouteInv
      BY <1>3 DEF BuildAuthData, RouteInv
<1>9. NameInv BY <1>3, <1>4, <1>5, <1>6 DEF NameInv
<1>10. AnswerInv
  <2>1. received <= grants BY <1>3
  <2>2. call.pc # "answered" BY <1>5
  <2> QED BY <2>1, <2>2, Zenon DEF AnswerInv
<1>11. CopiesInv
  <2>1. auth.storage.access_token = 1 /\ auth.storage.refresh_token = 1 BY <1>2, <1>4
  <2>2. grants = 1 /\ received = 1 /\ valid = {1} /\ file = storage BY <1>3
  <2> QED BY <1>2, <1>4, <1>8, <2>1, <2>2 DEF CopiesInv
<1> QED BY <1>7, <1>8, <1>9, <1>10, <1>11 DEF CredentialInv

\* A step that leaves the credential, its tokens and the refresh in flight alone.
LEMMA UntouchedKeeps ==
    ASSUME CredentialInv, pluginPrefix' \in Prefixes, edits' \in Nat,
           UNCHANGED <<file, names, auth, call, grants, valid, unheard, received, named>>
    PROVE CredentialInv'
BY DEF CredentialInv, TypeOK, AnswerInv, CopiesInv, RouteInv, NameInv

\* A new login starts a chain of tokens of its own.
LEMMA LoginKeeps == ASSUME CredentialInv, Login PROVE CredentialInv'
<1> USE DEF CredentialInv
<1> DEFINE n == grants + 1
           storage == BuildTokenStorage(LoginToken(n), TRUE)
<1>1. grants \in Issued /\ n \in Issued BY DEF TypeOK, Issued
<1>2. /\ storage \in Storages /\ storage.identity = TRUE
      /\ storage.access_token = n /\ storage.refresh_token = n
      BY <1>1, LoginStorage
<1> HIDE DEF storage
<1>3. /\ grants' = n /\ received' = n /\ valid' = valid \cup {n} /\ file' = storage
      /\ auth' = BuildAuthData(storage, CredentialFileName(storage), pluginPrefix)
      /\ names' = names \cup {CredentialFileName(storage)}
      /\ UNCHANGED <<call, pluginPrefix, unheard, edits, named>>
      BY DEF Login, storage
<1>4. CredentialFileName(storage) = "account" BY <1>2 DEF CredentialFileName
<1>5. /\ auth' \in Auths /\ auth'.id = "account" /\ auth'.storage = storage
      /\ auth'.metadata.access_token = n /\ auth'.metadata.refresh_token = n
      BY <1>2, <1>3, <1>4, BuildAuthDataType DEF TypeOK, FileNames
<1>6. TypeOK' BY <1>1, <1>2, <1>3, <1>4, <1>5 DEF TypeOK
<1>7. AnswerInv' BY <1>1, <1>3 DEF AnswerInv, TypeOK, Issued
<1>8. CopiesInv' /\ RouteInv'
      BY <1>1, <1>2, <1>3, <1>5, BuiltAgrees DEF CopiesInv, Issued
<1>9. NameInv' BY <1>3, <1>4, <1>5 DEF NameInv
<1> QED BY <1>6, <1>7, <1>8, <1>9

\* A parse takes the tokens of the file, which are the ones the host was given last.
LEMMA ParseKeeps == ASSUME CredentialInv, Parse PROVE CredentialInv'
<1> USE DEF CredentialInv
<1>1. PICK fileName \in SentNames :
        /\ auth' = BuildAuthData(file, ParsedName(fileName, file), pluginPrefix)
        /\ named' = (named /\ (fileName # "" \/ file.identity))
      BY DEF Parse
<1>2. UNCHANGED <<file, names, call, pluginPrefix, grants, valid, unheard, received, edits>>
      BY DEF Parse
<1> DEFINE name == ParsedName(fileName, file)
<1>3. /\ name \in FileNames
      /\ named' => name = "account"
  <2>1. auth.id \in FileNames BY DEF TypeOK, Auths, FileNames
  <2> QED BY <1>1, <2>1
          DEF SentNames, ParsedName, FirstOf, CredentialFileName, FileNames, NameInv
<1> HIDE DEF name
<1>4. auth' = BuildAuthData(file, name, pluginPrefix) BY <1>1 DEF name
<1>5. /\ auth' \in Auths /\ auth'.id = name /\ auth'.storage = file
      /\ auth'.metadata.access_token = file.access_token
      /\ auth'.metadata.refresh_token = file.refresh_token
      BY <1>3, <1>4, BuildAuthDataType DEF TypeOK
<1>6. TypeOK' BY <1>1, <1>2, <1>5 DEF TypeOK
<1>7. CopiesInv' /\ RouteInv'
      BY <1>2, <1>4, <1>5, BuiltAgrees DEF CopiesInv, TypeOK, AnswerInv
<1>8. NameInv' BY <1>1, <1>2, <1>3, <1>5 DEF NameInv
<1> QED BY <1>2, <1>6, <1>7, <1>8 DEF AnswerInv

\* The user's edits leave the tokens of the file alone.
LEMMA EditKeeps == ASSUME CredentialInv, Edit PROVE CredentialInv'
<1> USE DEF CredentialInv
<1>1. /\ file' \in Storages
      /\ file'.access_token = file.access_token /\ file'.refresh_token = file.refresh_token
      BY DEF Edit, TypeOK, Storages
<1>2. /\ edits' = edits + 1
      /\ UNCHANGED <<names, auth, call, pluginPrefix, grants, valid, unheard, received, named>>
      BY DEF Edit
<1>3. NameInv' BY <1>2 DEF NameInv
<1>4. TypeOK' BY <1>1, <1>2 DEF TypeOK
<1> QED BY <1>1, <1>2, <1>3, <1>4 DEF AnswerInv, CopiesInv, RouteInv

\* A refresh that begins, or ends without an answer, changes its call only.
LEMMA CallKeeps ==
    ASSUME CredentialInv, call' \in Calls, call'.pc # "answered",
           NameInv',
           UNCHANGED <<file, names, auth, pluginPrefix, grants, valid, unheard, received, edits,
                       named>>
    PROVE CredentialInv'
BY DEF CredentialInv, TypeOK, AnswerInv, CopiesInv, RouteInv, NameInv

\* The token a granted exchange rotates away is accounted for until its answer comes.
LEMMA GrantKeeps == ASSUME CredentialInv, Grant PROVE CredentialInv'
<1> USE DEF CredentialInv
<1> DEFINE used == call.storage.refresh_token  n == grants + 1
<1>1. PICK rotate \in BOOLEAN, identity \in BOOLEAN :
        /\ IF rotate
           THEN valid' = (valid \ {used}) \cup {n} /\ unheard' = unheard \cup {used}
           ELSE UNCHANGED <<valid, unheard>>
        /\ call' = [call EXCEPT !.pc = "answered",
                                !.token = [access_token |-> n,
                                           refresh_token |-> IF rotate THEN n ELSE 0,
                                           identity |-> identity]]
      BY DEF Grant
<1>2. /\ used \in valid /\ grants' = n
      /\ UNCHANGED <<file, names, auth, pluginPrefix, received, edits, named>>
      BY DEF Grant
<1>3. grants \in Issued /\ n \in Issued /\ n # 0 /\ used \in Issued
  <2>1. call.storage \in Storages BY DEF TypeOK, Calls
  <2>2. used \in Issued BY <2>1 DEF Storages
  <2> QED BY <2>2 DEF TypeOK, Issued
<1>4. /\ call' \in Calls /\ call'.storage = call.storage /\ call'.id = call.id
      /\ call'.token.access_token = n
      /\ call'.token.refresh_token = IF rotate THEN n ELSE 0
      BY <1>1, <1>3 DEF TypeOK, Calls, Issued
<1>5. TypeOK' BY <1>1, <1>2, <1>3, <1>4 DEF TypeOK
<1>6. FirstOf(call'.token.refresh_token, call'.storage.refresh_token, 0) \in valid'
      BY <1>1, <1>2, <1>3, <1>4 DEF FirstOf
<1>7. AnswerInv' BY <1>2, <1>3, <1>4, <1>6 DEF AnswerInv, TypeOK, Issued
<1>8. valid \cup unheard \subseteq valid' \cup unheard' BY <1>1
<1>9. NameInv' BY <1>2, <1>4 DEF NameInv
<1>10. auth.storage.access_token \in Nat BY DEF TypeOK, Auths, Storages, Issued
<1>11. CopiesInv' /\ RouteInv' BY <1>2, <1>3, <1>8, <1>10 DEF CopiesInv, RouteInv, Issued
<1> QED BY <1>5, <1>7, <1>9, <1>11

\* The answer replaces every copy, and with it the token it rotated away.
LEMMA DoneKeeps == ASSUME CredentialInv, RefreshDone PROVE CredentialInv'
<1> USE DEF CredentialInv
<1> DEFINE storage == RolledForward(call)
           new == FirstOf(call.token.refresh_token, call.storage.refresh_token, 0)
<1>1. /\ call \in Calls /\ call.pc = "answered"
      /\ call.token.access_token \in Issued /\ call.token.access_token <= grants
      /\ new \in valid
  <2>1. call.pc = "answered" BY DEF RefreshDone
  <2>2. call \in Calls /\ grants \in Nat BY DEF TypeOK, Issued
  <2> QED BY <2>1, <2>2 DEF AnswerInv, Issued
<1>2. /\ storage \in Storages
      /\ storage.access_token = call.token.access_token /\ storage.refresh_token = new
      BY <1>1, RolledForwardIs
<1> DEFINE name == RefreshedName(call.id, storage)
<1>3. /\ auth' = BuildAuthData(storage, name, pluginPrefix)
      /\ file' = storage /\ names' = names \cup {name}
      /\ named' = (named /\ (call.id # "" \/ storage.identity))
      /\ call' = NoCall(storage) /\ received' = call.token.access_token
      /\ unheard' = IF call.token.refresh_token = 0 THEN unheard
                    ELSE unheard \ {call.storage.refresh_token}
      /\ UNCHANGED <<pluginPrefix, grants, valid, edits>>
      BY DEF RefreshDone
<1> HIDE DEF storage, new
<1>4. name \in FileNames /\ (named' => name = "account")
      BY <1>3 DEF NameInv, RefreshedName, CredentialFileName, FileNames
<1> HIDE DEF name
<1>5. /\ auth' \in Auths /\ auth'.id = name /\ auth'.storage = storage
      /\ auth'.metadata.access_token = storage.access_token
      /\ auth'.metadata.refresh_token = storage.refresh_token
      BY <1>2, <1>3, <1>4, BuildAuthDataType DEF TypeOK
<1>6. call' \in Calls /\ call'.pc = "none" /\ call'.id = ""
      BY <1>2, <1>3 DEF NoCall, NoToken, Calls
<1>7. TypeOK' BY <1>1, <1>2, <1>3, <1>4, <1>5, <1>6 DEF TypeOK, FileNames
<1>8. AnswerInv' BY <1>1, <1>3, <1>6 DEF AnswerInv
<1>9. CopiesInv' /\ RouteInv'
      BY <1>1, <1>2, <1>3, <1>5, BuiltAgrees DEF CopiesInv
<1>10. NameInv' BY <1>3, <1>4, <1>5, <1>6 DEF NameInv
<1> QED BY <1>7, <1>8, <1>9, <1>10

\* The native executor renews metadata and file together, while no refresh of the
\* plugin holds the token it rotates away.
LEMMA NativeKeeps == ASSUME CredentialInv, NativeRefresh PROVE CredentialInv'
<1> USE DEF CredentialInv
<1> DEFINE n == grants + 1
<1>1. PICK token \in {auth.metadata.refresh_token, n} :
        /\ valid' = (valid \ {auth.metadata.refresh_token}) \cup {token}
        /\ auth' = [auth EXCEPT !.metadata.access_token = n,
                                !.metadata.refresh_token = token]
        /\ file' = [file EXCEPT !.access_token = n, !.refresh_token = token]
      BY DEF NativeRefresh
<1>2. /\ call.pc = "none" /\ grants' = n /\ received' = n
      /\ UNCHANGED <<names, call, pluginPrefix, unheard, edits, named>>
      BY DEF NativeRefresh
<1>3. grants \in Issued /\ n \in Issued /\ token \in Issued
  <2>1. auth.metadata.refresh_token \in Issued BY DEF TypeOK, Auths
  <2>2. n \in Issued BY DEF TypeOK, Issued
  <2> QED BY <1>1, <2>1, <2>2 DEF TypeOK
<1>4. /\ file' \in Storages /\ file'.access_token = n /\ file'.refresh_token = token
      BY <1>1, <1>3 DEF TypeOK, Storages
<1>5. /\ auth'.metadata = [auth.metadata EXCEPT !.access_token = n, !.refresh_token = token]
      /\ auth'.id = auth.id /\ auth'.prefix = auth.prefix
      /\ auth'.storage = auth.storage /\ auth'.attributes = auth.attributes
      BY <1>1 DEF TypeOK, Auths
<1>6. /\ auth'.metadata.access_token = n /\ auth'.metadata.refresh_token = token
      /\ auth'.metadata.base_url = auth.metadata.base_url
      /\ auth'.metadata.using_api = auth.metadata.using_api
      BY <1>5 DEF TypeOK, Auths
<1>7. auth' \in Auths BY <1>1, <1>3 DEF TypeOK, Auths
<1>8. TypeOK' BY <1>1, <1>2, <1>3, <1>4, <1>7 DEF TypeOK
<1>9. AnswerInv' BY <1>2, <1>3 DEF AnswerInv, Issued
<1>10. CopiesInv'
  <2>1. auth.storage.access_token \in Nat /\ auth'.storage = auth.storage
        BY <1>5 DEF TypeOK, Auths, Storages, Issued
  <2> QED BY <1>1, <1>2, <1>3, <1>4, <1>5, <1>6, <2>1 DEF CopiesInv, Issued
<1>11. RouteInv' /\ NameInv' BY <1>2, <1>5, <1>6 DEF RouteInv, NameInv
<1> QED BY <1>8, <1>9, <1>10, <1>11

\* No step of the plugin, the host, the user or the endpoint breaks the invariant.
LEMMA StepKeepsInv == CredentialInv /\ [Next]_vars => CredentialInv'
<1> SUFFICES ASSUME CredentialInv, [Next]_vars PROVE CredentialInv' OBVIOUS
<1>1. CASE \E p \in Prefixes : SetPluginConfig(p)
      BY <1>1, UntouchedKeeps DEF SetPluginConfig, CredentialInv, TypeOK
<1>2. CASE RefreshSend
  <2>1. PICK id \in SentNames :
          call' = [pc |-> "sent", id |-> id, storage |-> auth.storage,
                   endpoint |-> auth.storage.token_endpoint \/ auth.metadata.token_endpoint,
                   token |-> NoToken]
        BY <1>2 DEF RefreshSend
  <2>2. call' \in Calls /\ call'.pc = "sent" /\ call'.id = id
        BY <2>1 DEF SentNames, NoToken, Calls, CredentialInv, TypeOK, Auths, Storages
  <2>3. NameInv'
        BY <1>2, <2>1, <2>2 DEF RefreshSend, SentNames, CredentialInv, NameInv
  <2> QED BY <1>2, <2>2, <2>3, CallKeeps DEF RefreshSend
<1>3. CASE RefreshFail \/ RefreshLost
  <2>1. auth.storage \in Storages BY DEF CredentialInv, TypeOK, Auths
  <2>2. /\ NoCall(auth.storage) \in Calls
        /\ NoCall(auth.storage).pc = "none" /\ NoCall(auth.storage).id = ""
        BY <2>1 DEF NoCall, NoToken, Calls
  <2>3. NameInv' BY <1>3, <2>2 DEF RefreshFail, RefreshLost, CredentialInv, NameInv
  <2> QED BY <1>3, <2>2, <2>3, CallKeeps DEF RefreshFail, RefreshLost
<1>4. CASE UNCHANGED vars
      BY <1>4, UntouchedKeeps DEF vars, CredentialInv, TypeOK
<1> QED BY <1>1, <1>2, <1>3, <1>4, LoginKeeps, ParseKeeps, EditKeeps, GrantKeeps, DoneKeeps,
           NativeKeeps DEF Next

\* Every copy of the credential stays what the newest answer and the user made it.
THEOREM CredentialInvariant == Spec => []CredentialInv
BY InitInv, StepKeepsInv, PTL DEF Spec

-----------------------------------------------------------------------------
(* What follows from it                                                    *)

\* Types: every copy of the credential keeps both of its tokens.
THEOREM CredentialTypes == Spec => []TypeOK
BY CredentialInvariant, PTL DEF CredentialInv

\* Model discovery sends the access token the host was given last.
THEOREM BearerIsFresh == Spec => []FreshBearer
<1>1. CredentialInv => FreshBearer
  <2> SUFFICES ASSUME CredentialInv PROVE FreshBearer OBVIOUS
  <2>1. auth.attributes.api_key = 0 /\ auth.attributes.access_token = 0
        BY DEF CredentialInv, CopiesInv, Attributes
  <2>2. auth.metadata.access_token = received /\ received # 0
        BY DEF CredentialInv, CopiesInv, TypeOK, Issued
  <2> QED BY <2>1, <2>2 DEF FreshBearer, CredentialToken, FirstOf
<1> QED BY <1>1, CredentialInvariant, PTL

\* Host and file keep a refresh token the endpoint accepts, unless its answer is lost.
THEOREM CredentialStaysRefreshable == Spec => []StaysRefreshable
<1>1. CredentialInv => StaysRefreshable BY DEF CredentialInv, CopiesInv, StaysRefreshable
<1> QED BY <1>1, CredentialInvariant, PTL

\* One account keeps one credential file while the host names it.
THEOREM SingleFile == Spec => []OneFile
<1>1. CredentialInv => OneFile
  <2> SUFFICES ASSUME CredentialInv, named PROVE Cardinality(names) = 1 BY DEF OneFile
  <2>1. names = {"account"} BY DEF CredentialInv, NameInv
  <2> QED BY <2>1, FS_Singleton
<1> QED BY <1>1, CredentialInvariant, PTL

-----------------------------------------------------------------------------
(* Routes                                                                  *)

\* Where the attributes of a storage lead: a custom base wins, then using_api.
LEMMA RouteOfAttributes ==
    ASSUME NEW storage \in Storages, NEW a, a.attributes = Attributes(storage)
    PROVE ResolveModelsRoute(a) =
              [base |-> AuthBaseURL(storage), cli |-> AuthBaseURL(storage) = "cli"]
<1>1. /\ a.attributes.base_url = AuthBaseURL(storage)
      /\ a.attributes.using_api = FlagOf(UsingAPI(storage))
      BY DEF Attributes
<1>2. AuthString(a) = AuthBaseURL(storage)
      BY <1>1, AuthBaseURLType DEF AuthString, FirstOf
<1>3. UsingAPIForModels(a) = UsingAPI(storage)
  <2>1. CASE UsingAPI(storage)
        BY <1>1, <2>1 DEF UsingAPIForModels, Parses, FlagOf
  <2>2. CASE ~UsingAPI(storage)
    <3>1. a.attributes.using_api = "false" BY <1>1, <2>2 DEF FlagOf
    <3>2. UsingAPIForModels(a) = FALSE BY <3>1 DEF UsingAPIForModels, Parses
    <3>3. UsingAPI(storage) = FALSE BY <2>2 DEF UsingAPI
    <3> QED BY <3>2, <3>3
  <2> QED BY <2>1, <2>2
<1>4. CASE AuthBaseURL(storage) \notin {"api", "cli"}
      BY <1>2, <1>4, AuthBaseURLType DEF ResolveModelsRoute
<1>5. CASE AuthBaseURL(storage) \in {"api", "cli"}
  <2>1. AuthBaseURL(storage) = IF UsingAPI(storage) THEN "api" ELSE "cli"
        BY <1>5 DEF AuthBaseURL
  <2> QED BY <1>2, <1>3, <2>1 DEF ResolveModelsRoute
<1> QED BY <1>4, <1>5

\* Without its attributes, the metadata of a well-formed auth lead the same way.
LEMMA RouteOfMetadata ==
    ASSUME NEW storage \in Storages, NEW a, a.storage = storage,
           a.attributes.base_url = "", a.attributes.using_api = "",
           a.attributes.auth_kind = "", a.metadata.auth_kind = "oauth",
           a.metadata.base_url = Metadata(storage).base_url,
           a.metadata.using_api = Metadata(storage).using_api,
           Trimmed(storage.base_url) = storage.base_url
    PROVE ResolveModelsRoute(a) =
              [base |-> AuthBaseURL(storage), cli |-> AuthBaseURL(storage) = "cli"]
<1>1. /\ a.metadata.base_url = storage.base_url
      /\ a.metadata.using_api = IF storage.using_api = "absent" THEN "absent"
                                ELSE FlagOf(UsingAPI(storage))
      BY DEF Metadata
<1>2. AuthString(a) = storage.base_url BY <1>1 DEF AuthString, FirstOf
<1>3. storage.base_url \in {"", "api", "cli", "custom"}
      BY DEF Trimmed, Storages, Bases
<1>4. UsingAPIForModels(a) = (storage.using_api = "true")
  <2>1. CASE storage.using_api = "absent"
        BY <1>1, <2>1 DEF UsingAPIForModels, Parses, FirstOf
  <2>2. CASE storage.using_api = "true"
        BY <1>1, <2>2 DEF UsingAPIForModels, Parses, FlagOf, UsingAPI
  <2>3. CASE storage.using_api \in {"false", "junk"}
        BY <1>1, <2>3 DEF UsingAPIForModels, Parses, FlagOf, UsingAPI
  <2> QED BY <2>1, <2>2, <2>3 DEF Storages, Flags
<1> QED BY <1>2, <1>3, <1>4 DEF ResolveModelsRoute, AuthBaseURL, Trimmed, UsingAPI

\* Model discovery follows the route of inference, also from the metadata alone.
THEOREM RouteAgreement == Spec => []RouteAgrees
<1>1. CredentialInv => RouteAgrees
  <2> SUFFICES ASSUME CredentialInv PROVE RouteAgrees OBVIOUS
  <2> DEFINE base == AuthBaseURL(auth.storage)
  <2>1. /\ auth \in Auths /\ auth.storage \in Storages
        /\ auth.attributes = Attributes(auth.storage)
        BY DEF CredentialInv, TypeOK, CopiesInv, Auths
  <2>2. ResolveModelsRoute(auth) = [base |-> base, cli |-> base = "cli"]
        BY <2>1, RouteOfAttributes
  <2>3. auth.attributes.base_url = base BY <2>1 DEF Attributes
  <2>4. ASSUME Trimmed(auth.metadata.base_url) = auth.metadata.base_url
        PROVE ResolveModelsRoute(Bare(auth)) = [base |-> base, cli |-> base = "cli"]
    <3> DEFINE bare == Bare(auth)
    <3>1. /\ bare.storage = auth.storage /\ bare.metadata = auth.metadata
          /\ bare.attributes.base_url = "" /\ bare.attributes.using_api = ""
          /\ bare.attributes.auth_kind = ""
          BY <2>1 DEF Bare, Auths
    <3>2. /\ auth.metadata.auth_kind = "oauth"
          /\ auth.metadata.base_url = Metadata(auth.storage).base_url
          /\ auth.metadata.using_api = Metadata(auth.storage).using_api
          BY <2>1 DEF CredentialInv, RouteInv, Auths
    <3>3. Trimmed(auth.storage.base_url) = auth.storage.base_url
          BY <2>4, <3>2 DEF Metadata
    <3> HIDE DEF bare
    <3>4. ResolveModelsRoute(bare) = [base |-> base, cli |-> base = "cli"]
          BY <2>1, <3>1, <3>2, <3>3, RouteOfMetadata
    <3> QED BY <3>4 DEF bare
  <2> HIDE DEF base
  <2> QED BY <2>2, <2>3, <2>4 DEF RouteAgrees
<1> QED BY <1>1, CredentialInvariant, PTL

\* The metadata made of a storage carry its access token.
LEMMA BuiltToken ==
    ASSUME NEW storage, NEW name, NEW prefix
    PROVE BuildAuthData(storage, name, prefix).metadata.access_token = storage.access_token
BY DEF BuildAuthData, Metadata

\* Only the end of a refresh delivers its answer: every other step that replaces the
\* auth gives it a token older or newer than the one in flight.
LEMMA DeliveredByDone ==
    ASSUME CredentialInv, [Next]_vars, Delivered PROVE RefreshDone
<1> USE DEF CredentialInv
<1> DEFINE token == call.token.access_token
<1>1. /\ call.pc = "answered" /\ auth'.metadata.access_token = token
      /\ token \in 1..grants /\ token # received /\ grants \in Nat
      BY DEF Delivered, AnswerInv, TypeOK, Issued
<1>2. auth.metadata.access_token = received /\ file.access_token = received
      BY DEF CopiesInv
<1>3. auth' # auth BY <1>1, <1>2
<1>4. ASSUME Parse PROVE FALSE
  <2>1. PICK fileName : auth' = BuildAuthData(file, ParsedName(fileName, file), pluginPrefix)
        BY <1>4 DEF Parse
  <2>2. auth'.metadata.access_token = received BY <1>2, <2>1, BuiltToken
  <2> QED BY <1>1, <2>2
<1>5. ASSUME Login PROVE FALSE
  <2> DEFINE storage == BuildTokenStorage(LoginToken(grants + 1), TRUE)
  <2>1. auth' = BuildAuthData(storage, CredentialFileName(storage), pluginPrefix)
        BY <1>5 DEF Login
  <2>2. storage.access_token = grants + 1 BY DEF BuildTokenStorage, LoginToken
  <2> HIDE DEF storage
  <2>3. auth'.metadata.access_token = grants + 1 BY <2>1, <2>2, BuiltToken
  <2> QED BY <1>1, <2>3
<1>6. ~Grant /\ ~NativeRefresh /\ ~RefreshFail /\ ~RefreshSend
      BY <1>1 DEF Grant, NativeRefresh, RefreshFail, RefreshSend
<1>7. ~Edit /\ ~RefreshLost /\ ~UNCHANGED vars /\ ~\E p \in Prefixes : SetPluginConfig(p)
      BY <1>3 DEF Edit, RefreshLost, vars, SetPluginConfig
<1> QED BY <1>4, <1>5, <1>6, <1>7 DEF Next

\* A refresh leads the credential where its storage asked to go when it began.
THEOREM RefreshMovesNoRoute == Spec => RefreshKeepsRoute
<1> DEFINE Kept == ResolveModelsRoute(auth') =
                       ResolveModelsRoute(BuildAuthData(call.storage, "", ""))
<1>1. ASSUME CredentialInv, [Next]_vars, Delivered
      PROVE Kept
  <2> DEFINE storage == RolledForward(call)  old == BuildAuthData(call.storage, "", "")
  <2>1. auth' = BuildAuthData(storage, RefreshedName(call.id, storage), pluginPrefix)
        BY <1>1, DeliveredByDone DEF RefreshDone
  <2>2. call \in Calls /\ call.storage \in Storages /\ call.token.access_token \in Issued
    <3>1. call \in Calls BY <1>1 DEF CredentialInv, TypeOK
    <3>2. call.pc = "answered" /\ call.token.access_token \in 1..grants
          BY <1>1, Zenon DEF CredentialInv, Delivered, AnswerInv
    <3>3. grants \in Nat BY <1>1 DEF CredentialInv, TypeOK, Issued
    <3>4. call.token.access_token \in Issued BY <3>2, <3>3 DEF Issued
    <3> QED BY <3>1, <3>4 DEF Calls
  <2>3. /\ storage \in Storages /\ storage.using_api = call.storage.using_api
        /\ storage.base_url = IF call.storage.base_url = "custom" THEN "custom" ELSE "api"
        BY <2>2, RolledForwardIs
  <2> HIDE DEF storage
  <2>4. AuthBaseURL(storage) = AuthBaseURL(call.storage)
        BY <2>2, <2>3 DEF AuthBaseURL, Trimmed, UsingAPI, Storages, Bases
  <2>5. auth'.attributes = Attributes(storage) /\ old.attributes = Attributes(call.storage)
        BY <2>1 DEF BuildAuthData
  <2> HIDE DEF old
  <2>6. ResolveModelsRoute(auth') =
            [base |-> AuthBaseURL(storage), cli |-> AuthBaseURL(storage) = "cli"]
        BY <2>3, <2>5, RouteOfAttributes
  <2>7. ResolveModelsRoute(old) =
            [base |-> AuthBaseURL(call.storage), cli |-> AuthBaseURL(call.storage) = "cli"]
        BY <2>2, <2>5, RouteOfAttributes
  <2> QED BY <2>4, <2>6, <2>7 DEF old
<1>2. CredentialInv /\ [Next]_vars => [Delivered => Kept]_vars BY <1>1
<1> QED BY <1>2, CredentialInvariant, PTL DEF Spec, RefreshKeepsRoute
====
