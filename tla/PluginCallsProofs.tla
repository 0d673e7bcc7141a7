---- MODULE PluginCallsProofs ----
(***************************************************************************)
(* What PluginCalls guarantees for any number of host threads, every       *)
(* configuration and every answer of upstream: well-formed calls, the      *)
(* prefix in force in every calm auth, and no unvalidated endpoint.        *)
(***************************************************************************)
EXTENDS PluginCalls, TLAPS

Requests == {"discover", "device", "token", "models"}
Points == {"idle", "config", "build", "replied"} \cup Requests

\* What a handler answers with.
Plain == {Error, [ok |-> TRUE]}
Parsed == [ok : {TRUE}, prefix : Prefixes \cup {"torn"}]
Started == [ok : {TRUE}, token_endpoint : {"accepted", "rejected"}]
Lists == {<<>>} \cup {Listing(payload) : payload \in Payloads}
Listings == [ok : {TRUE}, remote : Lists, models : {<<>>} \cup {MergeModels(r) : r \in Lists}]
Replies == Plain \cup Parsed \cup Started \cup Listings

Calls ==
    [pc : Points, method : {"none", "reconfigure", "parse", "login", "poll", "refresh", "models"},
     prefix : Prefixes, words : SUBSET Words, seen : [Words -> Prefixes],
     doc : Documents \cup {Absent}, calm : BOOLEAN, reply : Replies \cup {Absent}]

TypeInv ==
    /\ call \in [Threads -> Calls]
    /\ pluginPrefix \in [Words -> Prefixes] /\ configured \in Prefixes

\* What a call relies on, where the configuration last finished is `current` and a
\* reconfigure is `changing` it.
PrefixSound(c, current, changing) ==
    /\ c.pc = "build" /\ c.calm =>
        /\ ~changing /\ c.prefix = ""
        /\ \A w \in Words \ c.words : c.seen[w] = current
    /\ c.pc = "replied" /\ "prefix" \in DOMAIN c.reply /\ c.calm =>
        /\ c.reply.prefix = FirstOf(c.prefix, current, "")
        /\ changing => c.prefix # ""
    /\ c.pc \in Requests => c.prefix = ""
EndpointSound(c) ==
    /\ c.pc = "replied" => c.reply \in Replies
    /\ c.pc = "device" => Valid(c.doc)
    /\ c.pc = "token" /\ c.doc # Absent => Valid(c.doc)
    /\ c.pc = "replied" /\ "token_endpoint" \in DOMAIN c.reply =>
        c.reply.token_endpoint = "accepted"
Sound(c, current, changing) == PrefixSound(c, current, changing) /\ EndpointSound(c)

\* One thread writes the string at a time; what it has written is its own prefix, and
\* between two reconfigures the string is the prefix configured last.
StringInv ==
    /\ \A t, u \in Threads : At(t, "config") /\ At(u, "config") => t = u
    /\ \A t \in Threads : At(t, "config") =>
        \A w \in Words \ call[t].words : pluginPrefix[w] = call[t].prefix
    /\ ~Configuring => \A w \in Words : pluginPrefix[w] = configured

CallsInv ==
    /\ TypeInv /\ StringInv
    /\ \A t \in Threads : Sound(call[t], configured, Configuring)

-----------------------------------------------------------------------------
(* Lemmas about the operators                                              *)

\* Threads start idle, and what they enter is a call without a reply.
LEMMA IdleCall == Idle \in Calls /\ Idle.pc = "idle" /\ Idle.prefix = "" /\ Idle.doc = Absent
BY PrefixesAssumption DEF Idle, Calls, Points, Words, NoWords, Requests

\* A call at its first point has no endpoint and no prefix yet.
LEMMA EnterCall ==
    ASSUME NEW method \in {"reconfigure", "parse", "login", "poll", "refresh", "models"},
           NEW pc \in Points
    PROVE LET c == Enter(method, pc) IN
          c \in Calls /\ c.pc = pc /\ c.prefix = "" /\ c.doc = Absent /\ c.calm = TRUE
BY PrefixesAssumption DEF Enter, Idle, Calls, Points, Words, NoWords, Requests

\* A reply keeps what it was made under.
LEMMA RepliedCall ==
    ASSUME NEW c \in Calls, NEW reply \in Replies
    PROVE LET r == Replied(c, reply) IN
          /\ r \in Calls /\ r.pc = "replied" /\ r.reply = reply
          /\ r.prefix = c.prefix /\ r.calm = c.calm
BY PrefixesAssumption DEF Replied, Idle, Calls, Points, Words, NoWords

\* A plain answer and a list of models have neither a prefix nor an endpoint.
LEMMA PlainReply ==
    ASSUME NEW reply \in Plain \cup Listings
    PROVE "prefix" \notin DOMAIN reply /\ "token_endpoint" \notin DOMAIN reply
BY DEF Plain, Listings, Error

\* An answer without a prefix and without an endpoint is sound.
LEMMA PlainSound ==
    ASSUME NEW c \in Calls, NEW reply \in Plain \cup Listings, NEW current, NEW changing
    PROVE Replied(c, reply) \in Calls /\ Sound(Replied(c, reply), current, changing)
<1>1. reply \in Replies /\ "prefix" \notin DOMAIN reply /\ "token_endpoint" \notin DOMAIN reply
      BY PlainReply DEF Replies
<1>2. /\ Replied(c, reply) \in Calls /\ Replied(c, reply).pc = "replied"
      /\ Replied(c, reply).reply = reply
      BY <1>1, RepliedCall
<1> QED BY <1>1, <1>2 DEF Sound, PrefixSound, EndpointSound, Requests

\* A reply that has a prefix has a named one, or a torn one.
LEMMA PrefixReply ==
    ASSUME NEW reply \in Replies, "prefix" \in DOMAIN reply
    PROVE reply.prefix \in Prefixes \cup {"torn"}
<1>1. CASE reply \in Plain \cup Listings BY <1>1, PlainReply
<1>2. CASE reply \in Started
  <2>1. DOMAIN reply = {"ok", "token_endpoint"} BY <1>2 DEF Started
  <2> QED BY <2>1
<1>3. CASE reply \in Parsed BY <1>3 DEF Parsed
<1> QED BY <1>1, <1>2, <1>3 DEF Replies

\* The configured prefix is one that a line of the block names.
LEMMA ScalarType ==
    ASSUME NEW block \in Blocks
    PROVE YamlScalar(block) \in Prefixes
<1>1. CASE FirstSaid(block) = {} BY <1>1, PrefixesAssumption DEF YamlScalar
<1>2. CASE FirstSaid(block) # {}
  <2>1. PICK i \in FirstSaid(block) : i = (CHOOSE j \in FirstSaid(block) : TRUE) BY <1>2
  <2>2. i \in DOMAIN block /\ Trim(block[i]) # "" BY <2>1 DEF FirstSaid
  <2> QED BY <1>2, <2>1, <2>2, PrefixesAssumption DEF YamlScalar
<1> QED BY <1>1, <1>2

-----------------------------------------------------------------------------
(* The inductive invariant                                                 *)

\* Before the first call the string is the configured one.
LEMMA InitSound == Init => CallsInv
<1> SUFFICES ASSUME Init PROVE CallsInv OBVIOUS
<1>1. \A t \in Threads : call[t] = Idle BY DEF Init
<1>2. TypeInv BY IdleCall DEF Init, TypeInv
<1>3. \A t \in Threads : ~At(t, "config") BY <1>1, IdleCall DEF At
<1>4. StringInv BY <1>3 DEF StringInv, Init
<1>5. \A t \in Threads : Sound(call[t], configured, Configuring)
      BY <1>1, IdleCall DEF Sound, PrefixSound, EndpointSound, Requests
<1> QED BY <1>2, <1>4, <1>5 DEF CallsInv

\* A call that moves on without touching the configuration.
LEMMA GoKeeps ==
    ASSUME CallsInv, NEW t \in Threads, NEW c \in Calls, Go(t, c),
           ~At(t, "config"), c.pc # "config", Sound(c, configured, Configuring)
    PROVE CallsInv'
<1> USE DEF CallsInv
<1>1. /\ call' = [call EXCEPT ![t] = c] /\ call \in [Threads -> Calls]
      /\ pluginPrefix' = pluginPrefix /\ configured' = configured
      BY DEF Go, TypeInv
<1>2. TypeInv' BY <1>1 DEF TypeInv
<1>3. \A u \in Threads : At(u, "config")' <=> At(u, "config") BY <1>1 DEF At
<1>4. Configuring' <=> Configuring BY <1>3 DEF Configuring
<1>5. \A u \in Threads : At(u, "config") => call'[u] = call[u] BY <1>1 DEF At
<1>6. StringInv' BY <1>1, <1>3, <1>4, <1>5 DEF StringInv
<1>7. ASSUME NEW u \in Threads PROVE Sound(call'[u], configured, Configuring)
      BY <1>1, <1>7
<1>8. \A u \in Threads : Sound(call[u], configured, Configuring)'
      BY <1>1, <1>4, <1>7 DEF Sound, PrefixSound
<1> QED BY <1>2, <1>6, <1>8

\* A call that ends with an answer of neither a prefix nor an endpoint.
LEMMA RespondKeeps ==
    ASSUME CallsInv, NEW t \in Threads, NEW reply \in Plain \cup Listings,
           Respond(t, reply), ~At(t, "config")
    PROVE CallsInv'
<1>1. call[t] \in Calls BY DEF CallsInv, TypeInv
<1> DEFINE c == Replied(call[t], reply)
<1>2. c \in Calls /\ Sound(c, configured, Configuring) BY <1>1, PlainSound
<1>3. c.pc = "replied" BY DEF Replied, Idle
<1>4. Go(t, c) BY DEF Respond, Go
<1> HIDE DEF c
<1> QED BY <1>2, <1>3, <1>4, GoKeeps

\* The calls that wait for upstream, or that have just asked it.
LEMMA RequestKeeps ==
    ASSUME CallsInv, NEW t \in Threads, NEW c \in Calls, Go(t, c), ~At(t, "config"),
           c.pc \in Requests, c.prefix = "",
           c.pc = "device" => Valid(c.doc), c.pc = "token" /\ c.doc # Absent => Valid(c.doc)
    PROVE CallsInv'
<1>1. Sound(c, configured, Configuring)
      BY DEF Sound, PrefixSound, EndpointSound, Requests
<1>2. c.pc # "config" BY DEF Requests
<1> QED BY <1>1, <1>2, GoKeeps

\* A reconfigure begins: no auth is calm any more that has read, or is reading, the
\* string.
LEMMA ReconfigureKeeps ==
    ASSUME CallsInv, NEW t \in Threads, Reconfigure(t) PROVE CallsInv'
<1> USE DEF CallsInv
<1>1. PICK block \in Blocks :
        call' = [u \in Threads |->
            IF u = t
            THEN [Enter("reconfigure", "config") EXCEPT !.prefix = YamlScalar(block),
                                                        !.words = Words]
            ELSE [call[u] EXCEPT !.calm = @ /\ ~At(u, "build") /\ ~Has(u, "prefix")]]
      BY DEF Reconfigure
<1>2. /\ ~Configuring /\ pluginPrefix' = pluginPrefix /\ configured' = configured
      BY DEF Reconfigure
<1> DEFINE c == [Enter("reconfigure", "config") EXCEPT !.prefix = YamlScalar(block),
                                                       !.words = Words]
<1>3. c \in Calls /\ c.pc = "config" /\ c.words = Words
  <2>1. /\ Enter("reconfigure", "config") \in Calls
        /\ Enter("reconfigure", "config").pc = "config"
        BY EnterCall DEF Points
  <2>2. YamlScalar(block) \in Prefixes BY ScalarType
  <2> QED BY <2>1, <2>2 DEF Calls
<1>4. call'[t] = c BY <1>1
<1> HIDE DEF c
<1>5. ASSUME NEW u \in Threads, u # t
      PROVE /\ call'[u] \in Calls /\ call'[u].pc = call[u].pc
            /\ call'[u].prefix = call[u].prefix /\ call'[u].doc = call[u].doc
            /\ call'[u].reply = call[u].reply
            /\ call'[u].calm => ~At(u, "build") /\ ~Has(u, "prefix")
  <2>1. call[u] \in Calls BY DEF TypeInv
  <2>2. call'[u] = [call[u] EXCEPT !.calm = call[u].calm /\ ~At(u, "build") /\ ~Has(u, "prefix")]
        BY <1>1, <1>5
  <2>3. (call[u].calm /\ ~At(u, "build") /\ ~Has(u, "prefix")) \in BOOLEAN
        BY <2>1 DEF Calls
  <2> HIDE DEF Has, At
  <2> QED BY <2>1, <2>2, <2>3 DEF Calls
<1>6. TypeInv'
  <2>1. \A u \in Threads : call'[u] \in Calls BY <1>3, <1>4, <1>5
  <2>2. call' \in [Threads -> Calls] BY <1>1, <2>1
  <2> QED BY <1>2, <2>2 DEF TypeInv
<1>7. \A u \in Threads : At(u, "config")' <=> u = t
      BY <1>2, <1>3, <1>4, <1>5 DEF At, Configuring
<1>8. StringInv'
      BY <1>3, <1>4, <1>7 DEF StringInv, Configuring
<1>9. ASSUME NEW u \in Threads PROVE Sound(call'[u], configured', Configuring')
  <2>1. CASE u = t
        BY <1>3, <1>4, <2>1 DEF Sound, PrefixSound, EndpointSound, Requests
  <2>2. CASE u # t
    <3>1. Sound(call[u], configured, Configuring) OBVIOUS
    <3>2. PrefixSound(call'[u], configured', Configuring')
          BY <1>5, <2>2, <3>1 DEF Sound, PrefixSound, At, Has
    <3>3. EndpointSound(call'[u])
          BY <1>5, <2>2, <3>1 DEF Sound, EndpointSound
    <3> QED BY <3>2, <3>3 DEF Sound
  <2> QED BY <2>1, <2>2
<1> QED BY <1>6, <1>8, <1>9

\* The last word of the string makes it the configured one.
LEMMA StoreKeeps ==
    ASSUME CallsInv, NEW t \in Threads, StoreWord(t) PROVE CallsInv'
<1> USE DEF CallsInv
<1> DEFINE c == call[t]
<1>1. /\ c \in Calls /\ c.pc = "config" /\ call \in [Threads -> Calls]
      /\ pluginPrefix \in [Words -> Prefixes] /\ c.prefix \in Prefixes
      BY DEF StoreWord, TypeInv, Calls
<1>2. PICK w \in c.words :
        /\ pluginPrefix' = [pluginPrefix EXCEPT ![w] = c.prefix]
        /\ call' = [call EXCEPT ![t] = IF c.words = {w} THEN Replied(c, [ok |-> TRUE])
                                       ELSE [c EXCEPT !.words = @ \ {w}]]
        /\ configured' = IF c.words = {w} THEN c.prefix ELSE configured
      BY DEF StoreWord
<1>3. w \in Words BY <1>1, <1>2 DEF Calls
<1>4. /\ At(t, "config") /\ Configuring
      /\ \A u \in Threads : At(u, "config") => u = t
      /\ \A v \in Words \ c.words : pluginPrefix[v] = c.prefix
      BY <1>1 DEF At, Configuring, StringInv
<1>5. \A v \in Words \ (c.words \ {w}) : pluginPrefix'[v] = c.prefix
      BY <1>1, <1>2, <1>3, <1>4
<1>6. ASSUME NEW u \in Threads, u # t
      PROVE /\ call'[u] = call[u] /\ call[u].pc # "config"
            /\ \A current : \A changing \in BOOLEAN : Sound(call[u], current, changing)
  <2>1. call'[u] = call[u] /\ call[u].pc # "config" BY <1>1, <1>2, <1>4, <1>6 DEF At
  <2>2. Sound(call[u], configured, Configuring) OBVIOUS
  <2> QED BY <1>4, <2>1, <2>2 DEF Sound, PrefixSound, FirstOf
<1>7. CASE c.words = {w}
  <2>1. [ok |-> TRUE] \in Plain \cup Listings BY DEF Plain
  <2>2. /\ call'[t] = Replied(c, [ok |-> TRUE]) /\ call'[t] \in Calls
        /\ \A current, changing : Sound(call'[t], current, changing)
        BY <1>1, <1>2, <1>7, <2>1, PlainSound
  <2>3. call'[t].pc = "replied" BY <2>2 DEF Replied, Idle
  <2>4. \A u \in Threads : ~At(u, "config")' BY <1>6, <2>3 DEF At
  <2>5. TypeInv' BY <1>1, <1>2, <1>7, <2>2 DEF TypeInv
  <2>6. \A v \in Words : pluginPrefix'[v] = configured' BY <1>2, <1>5, <1>7
  <2>7. StringInv' BY <2>4, <2>6 DEF StringInv
  <2>8. Configuring' \in BOOLEAN BY DEF Configuring
  <2>9. \A u \in Threads : Sound(call'[u], configured', Configuring')
        BY <1>6, <2>2, <2>8
  <2> QED BY <2>5, <2>7, <2>9
<1>8. CASE c.words # {w}
  <2> DEFINE d == [c EXCEPT !.words = @ \ {w}]
  <2>1. /\ d \in Calls /\ d.pc = "config" /\ d.words = c.words \ {w}
        /\ d.prefix = c.prefix
        BY <1>1 DEF Calls
  <2>2. call' = [call EXCEPT ![t] = d] /\ configured' = configured BY <1>2, <1>8
  <2> HIDE DEF d
  <2>3. call'[t] = d BY <1>1, <2>2
  <2>4. \A u \in Threads : At(u, "config")' <=> u = t BY <1>6, <2>1, <2>3 DEF At
  <2>5. TypeInv' BY <1>1, <1>2, <2>1, <2>2 DEF TypeInv
  <2>6. Configuring' BY <2>4 DEF Configuring
  <2>7. StringInv' BY <1>5, <2>1, <2>3, <2>4, <2>6 DEF StringInv
  <2>8. Configuring' \in BOOLEAN BY DEF Configuring
  <2>9. Sound(call'[t], configured', Configuring')
        BY <2>1, <2>3 DEF Sound, PrefixSound, EndpointSound, Requests
  <2>10. \A u \in Threads : Sound(call'[u], configured', Configuring')
        BY <1>6, <2>8, <2>9
  <2> QED BY <2>5, <2>7, <2>10
<1> QED BY <1>7, <1>8

\* An auth that is about to read the string is calm unless a reconfigure is running.
LEMMA BuildKeeps ==
    ASSUME CallsInv, NEW t \in Threads, NEW c \in Calls, c.prefix = "",
           Go(t, Build(c)), ~At(t, "config")
    PROVE CallsInv'
<1> DEFINE b == Build(c)
<1>1. Configuring \in BOOLEAN BY DEF Configuring
<1>2. /\ b \in Calls /\ b.pc = "build" /\ b.words = Words /\ b.prefix = ""
      /\ b.calm = ~Configuring
      BY <1>1 DEF Build, Calls, Points
<1> HIDE DEF b
<1>3. Sound(b, configured, Configuring)
      BY <1>2 DEF Sound, PrefixSound, EndpointSound, Requests
<1> QED BY <1>2, <1>3, GoKeeps DEF b

\* A file's own prefix needs no reading.
LEMMA ParseKeeps == ASSUME CallsInv, NEW t \in Threads, Parse(t) PROVE CallsInv'
<1>1. ~At(t, "config") BY DEF Parse, At
<1>2. PICK own \in Prefixes :
        LET c == [Enter("parse", "build") EXCEPT !.prefix = own] IN
        Go(t, IF own = "" THEN Build(c) ELSE Replied(c, [ok |-> TRUE, prefix |-> own]))
      BY DEF Parse
<1> DEFINE c == [Enter("parse", "build") EXCEPT !.prefix = own]
           reply == [ok |-> TRUE, prefix |-> own]
<1>3. c \in Calls /\ c.prefix = own
  <2>1. Enter("parse", "build") \in Calls BY EnterCall DEF Points
  <2> QED BY <2>1 DEF Calls
<1>4. CASE own = "" BY <1>1, <1>2, <1>3, <1>4, BuildKeeps
<1>5. CASE own # ""
  <2>1. reply \in Replies /\ reply.prefix = own /\ "token_endpoint" \notin DOMAIN reply
        BY DEF Replies, Parsed
  <2>2. Go(t, Replied(c, reply)) BY <1>2, <1>5
  <2> HIDE DEF c, reply
  <2>3. /\ Replied(c, reply) \in Calls /\ Replied(c, reply).pc = "replied"
        /\ Replied(c, reply).reply = reply /\ Replied(c, reply).prefix = own
        BY <1>3, <2>1, RepliedCall
  <2>4. Sound(Replied(c, reply), configured, Configuring)
        BY <1>5, <2>1, <2>3 DEF Sound, PrefixSound, EndpointSound, Requests, FirstOf
  <2> QED BY <1>1, <2>2, <2>3, <2>4, GoKeeps
<1> QED BY <1>4, <1>5

\* While nobody writes the string, both of its words are the configured prefix.
LEMMA ReadKeeps == ASSUME CallsInv, NEW t \in Threads, ReadWord(t) PROVE CallsInv'
<1> USE DEF CallsInv
<1> DEFINE c == call[t]
<1>1. /\ c \in Calls /\ c.pc = "build" /\ ~At(t, "config")
      /\ c.seen \in [Words -> Prefixes] /\ c.words \subseteq Words
      /\ pluginPrefix \in [Words -> Prefixes]
      BY DEF ReadWord, TypeInv, At, Calls
<1>2. PICK w \in c.words :
        LET seen == [c.seen EXCEPT ![w] = pluginPrefix[w]] IN
        Go(t, IF c.words = {w} THEN Replied(c, [ok |-> TRUE, prefix |-> StringOf(seen)])
              ELSE [c EXCEPT !.seen = seen, !.words = @ \ {w}])
      BY DEF ReadWord
<1> DEFINE seen == [c.seen EXCEPT ![w] = pluginPrefix[w]]
<1>3. seen \in [Words -> Prefixes] BY <1>1, <1>2
<1>4. ASSUME c.calm
      PROVE /\ ~Configuring /\ c.prefix = ""
            /\ \A v \in Words \ (c.words \ {w}) : seen[v] = configured
  <2>1. Sound(c, configured, Configuring) OBVIOUS
  <2>2. /\ ~Configuring /\ c.prefix = ""
        /\ \A v \in Words \ c.words : c.seen[v] = configured
        BY <1>1, <1>4, <2>1 DEF Sound, PrefixSound
  <2>3. pluginPrefix[w] = configured BY <1>1, <1>2, <2>2 DEF StringInv
  <2> QED BY <1>1, <1>2, <2>2, <2>3
<1> HIDE DEF seen
<1>5. CASE c.words = {w}
  <2> DEFINE reply == [ok |-> TRUE, prefix |-> StringOf(seen)]
  <2>1. StringOf(seen) \in Prefixes \cup {"torn"}
        BY <1>3, PrefixesAssumption DEF StringOf, Words
  <2>2. /\ reply \in Replies /\ reply.prefix = StringOf(seen)
        /\ "token_endpoint" \notin DOMAIN reply
        BY <2>1 DEF Replies, Parsed
  <2>3. Go(t, Replied(c, reply)) BY <1>2, <1>5 DEF seen
  <2> HIDE DEF reply
  <2>4. /\ Replied(c, reply) \in Calls /\ Replied(c, reply).pc = "replied"
        /\ Replied(c, reply).reply = reply /\ Replied(c, reply).prefix = c.prefix
        /\ Replied(c, reply).calm = c.calm
        BY <1>1, <2>2, RepliedCall
  <2>5. c.calm => StringOf(seen) = configured
        BY <1>4, <1>5 DEF StringOf, Words
  <2>6. Sound(Replied(c, reply), configured, Configuring)
        BY <1>4, <2>2, <2>4, <2>5 DEF Sound, PrefixSound, EndpointSound, Requests, FirstOf
  <2> QED BY <1>1, <2>3, <2>4, <2>6, GoKeeps
<1>6. CASE c.words # {w}
  <2> DEFINE d == [c EXCEPT !.seen = seen, !.words = @ \ {w}]
  <2>1. Go(t, d) BY <1>2, <1>6 DEF seen
  <2>2. /\ d \in Calls /\ d.pc = "build" /\ d.prefix = c.prefix /\ d.calm = c.calm
        /\ d.seen = seen /\ d.words = c.words \ {w}
        BY <1>1, <1>3 DEF Calls
  <2> HIDE DEF d
  <2>3. Sound(d, configured, Configuring)
        BY <1>4, <2>2 DEF Sound, PrefixSound, EndpointSound, Requests
  <2> QED BY <1>1, <2>1, <2>2, <2>3, GoKeeps
<1> QED BY <1>5, <1>6

\* A call that goes on with a discovered endpoint, or reports one, has a valid document.
LEMMA DiscoverKeeps == ASSUME CallsInv, NEW t \in Threads, DiscoverAnswer(t) PROVE CallsInv'
<1>1. ~At(t, "config") /\ call[t] \in Calls /\ call[t].prefix = ""
      BY DEF DiscoverAnswer, At, CallsInv, TypeInv, Sound, PrefixSound, Requests
<1>2. PICK doc \in Documents :
        IF ~Valid(doc) THEN Respond(t, Error)
        ELSE Go(t, [call[t] EXCEPT
                      !.doc = doc,
                      !.pc = IF call[t].method = "login" THEN "device" ELSE "token"])
      BY DEF DiscoverAnswer
<1>3. CASE ~Valid(doc) BY <1>1, <1>2, <1>3, RespondKeeps DEF Plain
<1>4. CASE Valid(doc)
  <2> DEFINE c == [call[t] EXCEPT
                     !.doc = doc,
                     !.pc = IF call[t].method = "login" THEN "device" ELSE "token"]
  <2>1. Go(t, c) BY <1>2, <1>4
  <2>2. c \in Calls /\ c.pc \in Requests /\ c.prefix = "" /\ c.doc = doc
        BY <1>1 DEF Calls, Points, Requests
  <2> HIDE DEF c
  <2> QED BY <1>1, <1>4, <2>1, <2>2, RequestKeeps
<1> QED BY <1>3, <1>4

\* A login that is begun reports the endpoint of a valid document.
LEMMA DeviceKeeps == ASSUME CallsInv, NEW t \in Threads, DeviceAnswer(t) PROVE CallsInv'
<1> USE DEF CallsInv
<1>1. /\ ~At(t, "config") /\ call[t] \in Calls /\ call[t].doc.token = "accepted"
      BY DEF DeviceAnswer, At, TypeInv, Sound, EndpointSound, Valid
<1> DEFINE reply == [ok |-> TRUE, token_endpoint |-> call[t].doc.token]
<1>2. CASE Respond(t, Error) BY <1>1, <1>2, RespondKeeps DEF Plain
<1>3. CASE Respond(t, reply)
  <2>1. /\ reply \in Replies /\ reply.token_endpoint = "accepted"
        /\ "prefix" \notin DOMAIN reply
        BY <1>1 DEF Replies, Started
  <2>2. Go(t, Replied(call[t], reply)) BY <1>3 DEF Respond, Go
  <2> HIDE DEF reply
  <2>3. /\ Replied(call[t], reply) \in Calls /\ Replied(call[t], reply).pc = "replied"
        /\ Replied(call[t], reply).reply = reply
        BY <1>1, <2>1, RepliedCall
  <2>4. Sound(Replied(call[t], reply), configured, Configuring)
        BY <2>1, <2>3 DEF Sound, PrefixSound, EndpointSound, Requests
  <2> QED BY <1>1, <2>2, <2>3, <2>4, GoKeeps
<1> QED BY <1>2, <1>3 DEF DeviceAnswer

\* The model list, and the calls that end without one.
LEMMA AnswerKeeps ==
    ASSUME CallsInv, NEW t \in Threads,
           \/ AnswerAtOnce(t) \/ StaticModels(t) \/ ModelsAnswer(t)
           \/ RequestFail(t) \/ Timeout(t)
    PROVE CallsInv'
<1>1. ~At(t, "config")
      BY DEF AnswerAtOnce, StaticModels, ModelsAnswer, RequestFail, Timeout, Timed, At
<1>2. \E reply \in Plain \cup Listings : Respond(t, reply)
  <2>1. CASE AnswerAtOnce(t) BY <2>1 DEF AnswerAtOnce, Plain
  <2>2. CASE RequestFail(t) \/ Timeout(t) BY <2>2 DEF RequestFail, Timeout, Plain
  <2>3. CASE StaticModels(t)
    <3>1. [ok |-> TRUE, remote |-> <<>>, models |-> <<>>] \in Listings
          BY DEF Listings, Lists
    <3> QED BY <2>3, <3>1 DEF StaticModels
  <2>4. CASE ModelsAnswer(t)
    <3>1. PICK payload \in Payloads :
            LET remote == Listing(payload) IN
            Respond(t, IF remote = Absent THEN Error
                       ELSE [ok |-> TRUE, remote |-> remote, models |-> MergeModels(remote)])
          BY <2>4 DEF ModelsAnswer
    <3> DEFINE remote == Listing(payload)
    <3>2. remote \in Lists BY DEF Lists
    <3> HIDE DEF remote
    <3>3. [ok |-> TRUE, remote |-> remote, models |-> MergeModels(remote)] \in Listings
          BY <3>2 DEF Listings
    <3> QED BY <3>1, <3>3 DEF Plain, remote
  <2> QED BY <2>1, <2>2, <2>3, <2>4
<1> QED BY <1>1, <1>2, RespondKeeps

\* The calls that ask upstream.
LEMMA AskKeeps ==
    ASSUME CallsInv, NEW t \in Threads,
           LoginStart(t) \/ LoginPoll(t) \/ Refresh(t) \/ ModelsForAuth(t)
    PROVE CallsInv'
<1>1. /\ ~At(t, "config")
      /\ \E method \in {"login", "poll", "refresh", "models"}, pc \in {"discover", "token", "models"} :
            Go(t, Enter(method, pc))
      BY DEF LoginStart, LoginPoll, Refresh, ModelsForAuth, At
<1>2. PICK method \in {"login", "poll", "refresh", "models"},
           pc \in {"discover", "token", "models"} : Go(t, Enter(method, pc))
      BY <1>1
<1> DEFINE c == Enter(method, pc)
<1>3. c \in Calls /\ c.pc = pc /\ c.prefix = "" /\ c.doc = Absent
  <2>1. /\ method \in {"reconfigure", "parse", "login", "poll", "refresh", "models"}
        /\ pc \in Points
        BY DEF Points, Requests
  <2> QED BY <2>1, EnterCall
<1> HIDE DEF c
<1>4. Go(t, c) BY <1>2 DEF c
<1> QED BY <1>1, <1>3, <1>4, RequestKeeps DEF Requests

\* No step of any thread breaks the invariant.
LEMMA StepKeepsCalls == CallsInv /\ [Next]_vars => CallsInv'
<1> SUFFICES ASSUME CallsInv, [Next]_vars PROVE CallsInv' OBVIOUS
<1>1. ASSUME NEW t \in Threads, HostFree(t) PROVE CallsInv'
  <2>1. /\ ~At(t, "config") /\ Go(t, Idle) BY <1>1 DEF HostFree, At
  <2>2. Sound(Idle, configured, Configuring)
        BY IdleCall DEF Sound, PrefixSound, EndpointSound, Requests
  <2> QED BY <2>1, <2>2, IdleCall, GoKeeps
<1>2. ASSUME NEW t \in Threads, TokenAnswer(t) PROVE CallsInv'
  <2>1. /\ ~At(t, "config") /\ call[t] \in Calls /\ call[t].prefix = ""
        /\ Go(t, Build(call[t]))
        BY <1>2 DEF TokenAnswer, At, CallsInv, TypeInv, Sound, PrefixSound, Requests
  <2> QED BY <2>1, BuildKeeps
<1>3. CASE UNCHANGED vars
      BY <1>3 DEF vars, CallsInv, TypeInv, StringInv, At, Configuring, Sound, PrefixSound
<1>4. CASE Next
  <2>1. PICK t \in Threads : Step(t) BY <1>4 DEF Next
  <2> QED BY <1>1, <1>2, <2>1, ReconfigureKeeps, StoreKeeps, ParseKeeps, ReadKeeps,
             DiscoverKeeps, DeviceKeeps, AnswerKeeps, AskKeeps DEF Step
<1> QED BY <1>3, <1>4

\* Every call keeps what it relies on.
THEOREM CallsInvariant == Spec => []CallsInv
BY InitSound, StepKeepsCalls, PTL DEF Spec

-----------------------------------------------------------------------------
(* What follows from it                                                    *)

\* Types: every call is at a point of its handler, every prefix is a named one.
THEOREM CallTypes == Spec => []TypeOK
<1>1. CallsInv => TypeOK
  <2> SUFFICES ASSUME CallsInv, NEW t \in Threads
               PROVE /\ pluginPrefix \in [Words -> Prefixes] /\ configured \in Prefixes
                     /\ call[t].pc \in Points
                     /\ call[t].words \subseteq Words /\ call[t].seen \in [Words -> Prefixes]
                     /\ call[t].prefix \in Prefixes /\ call[t].calm \in BOOLEAN
                     /\ Has(t, "prefix") => call[t].reply.prefix \in Prefixes \cup {"torn"}
        BY DEF TypeOK, Points, Requests, CallsInv, TypeInv
  <2>1. call[t] \in Calls BY DEF CallsInv, TypeInv
  <2>2. ASSUME Has(t, "prefix") PROVE call[t].reply.prefix \in Prefixes \cup {"torn"}
    <3>1. call[t].reply \in Replies /\ "prefix" \in DOMAIN call[t].reply
          BY <2>2 DEF CallsInv, Sound, EndpointSound, Has, At
    <3> QED BY <3>1, PrefixReply
  <2> QED BY <2>1, <2>2 DEF CallsInv, TypeInv, Calls
<1> QED BY <1>1, CallsInvariant, PTL

\* A calm auth carries its own prefix, else the one configured last.
THEOREM PrefixIsCurrent == Spec => []PrefixCurrent
<1>1. CallsInv => PrefixCurrent
      BY DEF CallsInv, Sound, PrefixSound, PrefixCurrent, Has, At
<1> QED BY <1>1, CallsInvariant, PTL

\* No request and no login uses an endpoint that was not validated.
THEOREM EndpointsAreValid == Spec => []OnlyValidEndpoints
<1>1. CallsInv => OnlyValidEndpoints
      BY DEF CallsInv, Sound, EndpointSound, OnlyValidEndpoints, Has, At, Valid
<1> QED BY <1>1, CallsInvariant, PTL
====
