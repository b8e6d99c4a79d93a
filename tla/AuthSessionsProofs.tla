------------------------- MODULE AuthSessionsProofs -------------------------
(***************************************************************************)
(* Proofs about refresh tokens, for any users, tokens, worker processes    *)
(* and number of requests in flight, and any number of failing commands.   *)
(***************************************************************************)
EXTENDS AuthSessions, FiniteSetTheorems, TLAPS

(* ------------------------ the inductive invariant --------------------- *)

\* Where the token a request presents still matters, and where it is storing one
Uses(q) == q.pc \in {"delete", "srem", "user", "family", "drop"}
Storing(q) == q.pc \in {"hset", "sadd", "stored"}

\* logout/all and the invalidation of a family find t, or a failure or an overlap left it out
Findable(t) == t \in index[owner[t]] \/ t \in missed

\* What a request may count on.  A token presented was given to somebody, and once deleted never
\* comes back; a token being stored belongs to the user of the request and nobody has it yet;
\* when it is handed out it is listed.
QOK(q) ==
  /\ Uses(q) => q.token \in given
  /\ q.pc = "srem" => q.token \notin live
  /\ Storing(q) =>
       \E t \in Tokens :
         /\ q.tokens = {t} /\ owner[t] = q.user /\ t \notin given
         /\ q.pc = "hset" => t \notin live
         /\ q.pc = "stored" /\ t \in live => Findable(t)

\* No two requests store the same token
Distinct ==
  \A r, s \in Slots :
    r # s /\ Storing(req[r]) /\ Storing(req[s]) => req[r].tokens \cap req[s].tokens = {}

IInv == TypeOK /\ (\A r \in Slots : QOK(req[r])) /\ Distinct /\ ListedOrMissed

\* The types of everything but the slots
TypeRest ==
  /\ account \in [Users -> {"none", "active", "inactive"}]
  /\ access \subseteq Users
  /\ owner \in [Tokens -> Users \cup {None}]
  /\ family \in [Tokens -> Tokens \cup {None}]
  /\ \A t \in Tokens : owner[t] = None <=> family[t] = None
  /\ parent \in [Tokens -> Tokens \cup {None}]
  /\ given \subseteq {t \in Tokens : owner[t] # None}
  /\ live \subseteq {t \in Tokens : owner[t] # None}
  /\ index \in [Users -> SUBSET Tokens]
  /\ memory \in [Workers -> SUBSET Tokens]
  /\ missed \subseteq Tokens
  /\ faults \in 0 .. MaxFaults
  /\ edits \in 0 .. MaxEdits

\* TypeOK in two parts: what is not a slot, and the slots
LEMMA TypeParts == TypeOK <=> TypeRest /\ req \in [Slots -> InFlight \cup {Idle}]
BY DEF TypeOK, TypeRest

\* The same of the next state
LEMMA TypePartsNext == TypeOK' <=> TypeRest' /\ req' \in [Slots -> InFlight \cup {Idle}]
BY DEF TypeOK, TypeRest

\* An idle slot is at no step
LEMMA IdleHasNoStage == Idle.pc = "idle"
BY DEF Idle

\* A slot that is not free carries a typed request
LEMMA CarriedType ==
  ASSUME TypeOK, NEW r \in Slots, req[r].pc # "idle"
  PROVE  /\ req[r] \in InFlight /\ req[r] # Idle
         /\ req[r].worker \in Workers /\ req[r].user \in Users
         /\ req[r].token \in Tokens \cup {None} /\ req[r].tokens \in SUBSET Tokens
<1>1. req[r] \in InFlight \cup {Idle} /\ req[r] # Idle
  BY IdleHasNoStage DEF TypeOK
<1>2. req[r] \in InFlight
  BY <1>1
<1> QED BY <1>1, <1>2 DEF InFlight


\* The request as it goes on
LEMMA MovedRequest ==
  ASSUME TypeOK, NEW r \in Slots, req[r].pc # "idle",
         NEW pc \in {"delete", "srem", "user", "hset", "sadd", "stored", "family", "drop", "revoke"}
  PROVE  \E q \in InFlight :
           /\ q = [req[r] EXCEPT !.pc = pc] /\ q.pc = pc /\ q.token = req[r].token
           /\ q.tokens = req[r].tokens /\ q.user = req[r].user
<1> DEFINE q == [req[r] EXCEPT !.pc = pc]
<1>1. /\ q \in InFlight /\ q.pc = pc /\ q.token = req[r].token
      /\ q.tokens = req[r].tokens /\ q.user = req[r].user
  <2>1. req[r] \in InFlight
    BY CarriedType
  <2> QED BY <2>1 DEF InFlight
<1> HIDE DEF q
<1>2. \E p \in InFlight : /\ p = q /\ p.pc = pc /\ p.token = req[r].token
                         /\ p.tokens = req[r].tokens /\ p.user = req[r].user
  BY <1>1
<1> QED BY <1>2 DEF q

\* A step of slot r keeps the invariant if its own request is sound afterwards, if it gives out
\* and revives at most the token r was storing, and if it takes no usable token off a list
LEMMA SlotStep ==
  ASSUME IInv, NEW r \in Slots, NEW q \in InFlight \cup {Idle}, req' = [req EXCEPT ![r] = q],
         TypeRest', QOK(q)',
         \A t \in Tokens : owner[t] # None => owner'[t] = owner[t],
         given \subseteq given',
         \A t \in (given' \ given) \cup (live' \ live) : Storing(req[r]) /\ t \in req[r].tokens,
         \A t \in live \cap live' : Findable(t) => Findable(t)',
         \A t \in (given' \ given) \cap live' : Findable(t)',
         Storing(q) => \/ Storing(req[r]) /\ q.tokens = req[r].tokens
                       \/ \A t \in q.tokens : t \in Tokens /\ owner[t] = None
  PROVE  IInv'
<1>1. /\ req' \in [Slots -> InFlight \cup {Idle}] /\ req'[r] = q
      /\ \A s \in Slots \ {r} : req'[s] = req[s]
  BY TypeParts DEF IInv
<1>2. TypeOK'
  BY <1>1, TypePartsNext
<1>3. ASSUME NEW s \in Slots \ {r} PROVE QOK(req[s])'
  <2>1. PICK p : p = req[s]
    OBVIOUS
  <2>2. QOK(p)
    BY <2>1 DEF IInv
  <2>3. Uses(p) => p.token \in given'
    BY <2>2 DEF QOK
  <2>4. p.pc = "srem" => p.token \notin live'
    <3>1. ASSUME p.pc = "srem", p.token \in live' PROVE FALSE
      <4>1. p.token \notin live /\ p.token \in given
        BY <2>2, <3>1 DEF QOK, Uses
      <4>2. Storing(req[r]) /\ p.token \in req[r].tokens
        BY <3>1, <4>1
      <4> QED BY <4>1, <4>2 DEF IInv, QOK
    <3> QED BY <3>1
  <2>5. ASSUME Storing(p)
        PROVE  \E t \in Tokens :
                 /\ p.tokens = {t} /\ owner'[t] = p.user /\ t \notin given'
                 /\ p.pc = "hset" => t \notin live'
                 /\ p.pc = "stored" /\ t \in live' => Findable(t)'
    <3>1. PICK t \in Tokens :
            /\ p.tokens = {t} /\ owner[t] = p.user /\ t \notin given
            /\ p.pc = "hset" => t \notin live
            /\ p.pc = "stored" /\ t \in live => Findable(t)
      BY <2>2, <2>5 DEF QOK
    <3>2. p \in InFlight
      BY <2>1, <2>5, CarriedType DEF IInv, Storing
    <3>3. owner[t] # None
      BY <3>1, <3>2, NoneAssumption DEF InFlight
    <3>4. ~ (Storing(req[r]) /\ t \in req[r].tokens)
      BY <2>1, <2>5, <3>1 DEF IInv, Distinct
    <3>5. t \notin given' /\ (t \in live' => t \in live)
      BY <3>1, <3>4
    <3> QED BY <3>1, <3>3, <3>5
  <2>6. QOK(p)'
    BY <2>3, <2>4, <2>5 DEF QOK
  <2> QED BY <1>1, <2>1, <2>6 DEF QOK, Uses, Storing
<1>4. QOK(req[r])'
  BY <1>1 DEF QOK, Uses, Storing
<1>5. Distinct'
  <2>1. ASSUME NEW s \in Slots \ {r}, Storing(q), Storing(req[s]) PROVE q.tokens \cap req[s].tokens = {}
    <3>1. CASE Storing(req[r]) /\ q.tokens = req[r].tokens
      BY <2>1, <3>1 DEF IInv, Distinct
    <3>2. CASE \A t \in q.tokens : t \in Tokens /\ owner[t] = None
      <4>1. req[s] \in InFlight
        BY <2>1, CarriedType DEF IInv, Storing
      <4>2. \A t \in req[s].tokens : owner[t] = req[s].user /\ req[s].user \in Users
        BY <2>1, <4>1 DEF IInv, QOK, InFlight
      <4> QED BY <3>2, <4>2, NoneAssumption
    <3> QED BY <2>1, <3>1, <3>2
  <2>2. ASSUME NEW s \in Slots, NEW x \in Slots, s # x, Storing(req'[s]), Storing(req'[x])
        PROVE  req'[s].tokens \cap req'[x].tokens = {}
    <3>1. CASE s # r /\ x # r
      BY <1>1, <2>2, <3>1 DEF IInv, Distinct
    <3>2. CASE s = r \/ x = r
      BY <1>1, <2>1, <2>2, <3>2
    <3> QED BY <3>1, <3>2
  <2> QED BY <2>2 DEF Distinct, Storing
<1>6. ListedOrMissed'
  <2>1. ASSUME NEW t \in given' \cap live' PROVE Findable(t)'
    <3>1. CASE t \in given
      <4>1. t \in live
        BY <2>1, <3>1 DEF IInv, QOK
      <4>2. Findable(t)
        BY <3>1, <4>1 DEF IInv, ListedOrMissed, Findable
      <4> QED BY <2>1, <4>1, <4>2
    <3>2. CASE t \notin given
      BY <2>1, <3>2
    <3> QED BY <3>1, <3>2
  <2> QED BY <2>1 DEF ListedOrMissed, Findable
<1> QED BY <1>1, <1>2, <1>3, <1>4, <1>5, <1>6 DEF IInv

\* Past its token a request goes on as a typed one, or is over
LEMMA ValidatedStep ==
  ASSUME NEW r \in Slots, NEW q \in InFlight, Validated(r, q)
  PROVE  \E p \in InFlight \cup {Idle} :
           /\ req' = [req EXCEPT ![r] = p]
           /\ p = Idle \/ (p.pc = "user" /\ p.token = q.token)
<1>1. [q EXCEPT !.pc = "user"] \in InFlight /\ [q EXCEPT !.pc = "user"].pc = "user"
      /\ [q EXCEPT !.pc = "user"].token = q.token
  BY DEF InFlight
<1> QED BY <1>1 DEF Validated, Carry

(* ------------------------------- accounts ----------------------------- *)

\* Steps that touch no slot: accounts and what expires
LEMMA QuietStep ==
  ASSUME IInv, UNCHANGED <<facts, given, index, missed, req, faults>>, TypeRest', live' \subseteq live
  PROVE  IInv'
<1>1. TypeOK'
  BY TypeParts, TypePartsNext DEF IInv
<1>2. owner' = owner /\ given' = given /\ index' = index /\ missed' = missed /\ req' = req
  BY DEF facts
<1>3. ASSUME NEW r \in Slots PROVE QOK(req[r])'
  <2>1. QOK(req[r])
    BY DEF IInv
  <2> QED BY <1>2, <2>1 DEF QOK, Uses, Storing, Findable
<1>4. Distinct' /\ ListedOrMissed'
  BY <1>2 DEF IInv, Distinct, Storing, ListedOrMissed
<1> QED BY <1>1, <1>3, <1>4 DEF IInv

\* Registering, (de)activating and the expiry of access tokens touch no refresh token
LEMMA AccountStep ==
  ASSUME IInv, NEW u \in Users, Register(u) \/ SetActive(u) \/ AccessExpires(u)
  PROVE  IInv'
<1>1. UNCHANGED <<facts, given, live, index, missed, req, faults>> /\ UNCHANGED <<memory>>
  BY DEF Register, SetActive, AccessExpires, Edit, store
<1>2. account' \in [Users -> {"none", "active", "inactive"}] /\ edits' \in 0 .. MaxEdits
      /\ access' \subseteq Users
  BY BoundsAssumption DEF Register, SetActive, AccessExpires, Edit, accounts, IInv, TypeOK
<1>3. TypeRest'
  BY <1>1, <1>2, TypeParts DEF IInv, TypeRest, facts
<1> QED BY <1>1, <1>3, QuietStep

\* A token whose time to live ends only disappears
LEMMA ExpireStep ==
  ASSUME IInv, NEW t \in Tokens, Expire(t)
  PROVE  IInv'
<1>1. memory' \in [Workers -> SUBSET Tokens] /\ live' \subseteq live
  BY DEF Expire, IInv, TypeOK
<1>2. TypeRest'
  BY <1>1, TypeParts DEF Expire, IInv, TypeRest, facts, accounts
<1> QED BY <1>1, <1>2, QuietStep DEF Expire

(* ------------------------------ the slots ----------------------------- *)

\* A new token: no row, no hash and no list knows it yet
LEMMA NewTokenStep ==
  ASSUME IInv, NEW r \in Slots, NEW q \in InFlight, NEW t \in Tokens, NEW used \in Tokens \cup {None},
         used # None => owner[used] # None,
         NewToken(r, q, t, used), UNCHANGED <<accounts, access, given, store, missed, faults>>
  PROVE  IInv'
<1>1. PICK p \in InFlight : p = [q EXCEPT !.pc = "hset", !.tokens = {t}]
  BY DEF InFlight
<1>2. p.pc = "hset" /\ p.tokens = {t} /\ p.user = q.user /\ q.user \in Users
  BY <1>1 DEF InFlight
<1>3. owner[t] = None /\ owner' = [owner EXCEPT ![t] = q.user] /\ req' = [req EXCEPT ![r] = p]
  BY <1>1 DEF NewToken, Carry
<1>4. t \notin given /\ t \notin live
  BY <1>3, NoneAssumption DEF IInv, TypeOK
<1>5. FamilyOf(t, used) \in Tokens
  BY DEF FamilyOf, IInv, TypeOK
<1>6. \A x \in Tokens : owner'[x] = (IF x = t THEN q.user ELSE owner[x])
  BY <1>3 DEF IInv, TypeOK
<1>7. family' = [family EXCEPT ![t] = FamilyOf(t, used)] /\ parent' = [parent EXCEPT ![t] = used]
  BY DEF NewToken
<1>8. \A x \in Tokens : owner'[x] = None <=> family'[x] = None
  BY <1>2, <1>5, <1>6, <1>7, NoneAssumption DEF IInv, TypeOK
<1>9. TypeRest'
  <2>1. owner' \in [Tokens -> Users \cup {None}] /\ family' \in [Tokens -> Tokens \cup {None}]
        /\ parent' \in [Tokens -> Tokens \cup {None}]
    BY <1>2, <1>3, <1>5, <1>7 DEF IInv, TypeOK
  <2>2. given \subseteq {x \in Tokens : owner'[x] # None} /\ live \subseteq {x \in Tokens : owner'[x] # None}
    BY <1>2, <1>6, NoneAssumption DEF IInv, TypeOK
  <2> QED BY <1>8, <2>1, <2>2, TypeParts DEF IInv, TypeRest, accounts, store
<1>10. QOK(p)'
  BY <1>2, <1>4, <1>6 DEF QOK, Uses, Storing, store
<1>11. \A x \in live \cap live' : Findable(x) => Findable(x)'
  BY <1>3, <1>6, NoneAssumption DEF Findable, store, IInv, TypeOK
<1> QED BY <1>2, <1>3, <1>6, <1>9, <1>10, <1>11, SlotStep DEF store

\* A login picks a token nobody has and no other request is storing
LEMMA LoginStep ==
  ASSUME IInv, NEW r \in Slots, NEW w \in Workers, NEW u \in Users, NEW t \in Tokens, Login(r, w, u, t)
  PROVE  IInv'
<1>1. [pc |-> "hset", op |-> "login", worker |-> w, user |-> u, token |-> None, tokens |-> {}] \in InFlight
  BY DEF InFlight
<1> QED BY <1>1, NewTokenStep DEF Login

\* So does a refresh that exchanges its token
LEMMA ExchangeStep ==
  ASSUME IInv, NEW r \in Slots, NEW t \in Tokens, Exchange(r, t)
  PROVE  IInv'
<1>1. req[r] \in InFlight /\ req[r].token \in Tokens \cup {None}
  BY CarriedType DEF Exchange, IInv
<1>2. req[r].token \in given
  BY DEF Exchange, IInv, QOK, Uses
<1>3. owner[req[r].token] # None
  BY <1>2 DEF IInv, TypeOK
<1> QED BY <1>1, <1>3, NewTokenStep DEF Exchange

\* The token being stored, with what is known of it
LEMMA StoredToken ==
  ASSUME IInv, NEW r \in Slots, Storing(req[r])
  PROVE  /\ req[r] \in InFlight /\ req[r].user \in Users /\ req[r].worker \in Workers
         /\ \E t \in Tokens :
              /\ req[r].tokens = {t} /\ owner[t] = req[r].user /\ owner[t] # None /\ t \notin given
              /\ req[r].pc = "hset" => t \notin live
              /\ req[r].pc = "stored" /\ t \in live => Findable(t)
<1>1. req[r] \in InFlight /\ req[r].user \in Users /\ req[r].worker \in Workers
  BY CarriedType DEF IInv, Storing
<1>2. req[r].user # None
  BY <1>1, NoneAssumption
<1>3. QOK(req[r])
  BY DEF IInv
<1> QED BY <1>1, <1>2, <1>3 DEF QOK

\* The hash is written: the token is live before it is listed, and its request still holds it
LEMMA HsetStep ==
  ASSUME IInv, NEW r \in Slots, Hset(r)
  PROVE  IInv'
<1>1. Storing(req[r]) /\ req[r].pc = "hset"
  BY DEF Hset, Storing
<1>2. PICK t \in Tokens :
        /\ req[r].tokens = {t} /\ owner[t] = req[r].user /\ owner[t] # None /\ t \notin given
        /\ t \notin live
  BY <1>1, StoredToken
<1>3. PICK q \in InFlight : /\ q = [req[r] EXCEPT !.pc = "sadd"] /\ q.pc = "sadd"
                           /\ q.tokens = {t} /\ q.user = req[r].user
  BY <1>1, <1>2, MovedRequest DEF IInv
<1>4. /\ live' = live \cup {t} /\ req' = [req EXCEPT ![r] = q]
      /\ UNCHANGED <<accounts, access, facts, given, index, memory, missed, faults>>
  BY <1>2, <1>3 DEF Hset, Goto, Carry
<1>5. TypeRest'
  BY <1>2, <1>4, TypeParts DEF IInv, TypeRest, accounts, facts
<1>6. QOK(q)'
  BY <1>2, <1>3, <1>4 DEF QOK, Uses, Storing, facts
<1> QED BY <1>1, <1>2, <1>3, <1>4, <1>5, <1>6, SlotStep DEF Findable, facts

\* The list is written: the token can be found from now on
LEMMA SaddStep ==
  ASSUME IInv, NEW r \in Slots, Sadd(r)
  PROVE  IInv'
<1>1. Storing(req[r]) /\ req[r].pc = "sadd"
  BY DEF Sadd, Storing
<1>2. PICK t \in Tokens :
        req[r].tokens = {t} /\ owner[t] = req[r].user /\ owner[t] # None /\ t \notin given
  BY <1>1, StoredToken
<1>3. PICK q \in InFlight : /\ q = [req[r] EXCEPT !.pc = "stored"] /\ q.pc = "stored"
                           /\ q.tokens = {t} /\ q.user = req[r].user
  BY <1>1, <1>2, MovedRequest DEF IInv
<1>4. /\ index' = [index EXCEPT ![q.user] = @ \cup {t}] /\ req' = [req EXCEPT ![r] = q]
      /\ UNCHANGED <<accounts, access, facts, given, live, memory, missed, faults>>
  BY <1>2, <1>3 DEF Sadd, Listed, Goto, Carry
<1>5. q.user \in Users /\ index \in [Users -> SUBSET Tokens]
  BY <1>3 DEF InFlight, IInv, TypeOK
<1>6. TypeRest'
  BY <1>4, <1>5, TypeParts DEF IInv, TypeRest, accounts, facts
<1>7. \A x : Findable(x) => Findable(x)'
  BY <1>4, <1>5 DEF Findable, facts
<1>8. QOK(q)'
  BY <1>2, <1>3, <1>4, <1>5 DEF QOK, Uses, Storing, Findable, facts
<1> QED BY <1>1, <1>2, <1>3, <1>4, <1>6, <1>7, <1>8, SlotStep DEF facts

\* A command that fails while the token is stored: the memory of the worker takes it
LEMMA StoreInMemoryStep ==
  ASSUME IInv, NEW r \in Slots, StoreInMemory(r), faults' \in 0 .. MaxFaults
  PROVE  IInv'
<1>1. Storing(req[r])
  BY DEF StoreInMemory, Storing
<1>2. PICK t \in Tokens :
        /\ req[r].tokens = {t} /\ owner[t] = req[r].user /\ owner[t] # None /\ t \notin given
        /\ req[r].pc = "hset" => t \notin live
        /\ req[r].pc = "stored" /\ t \in live => Findable(t)
  BY <1>1, StoredToken
<1>3. PICK q \in InFlight : /\ q = [req[r] EXCEPT !.pc = "stored"] /\ q.pc = "stored"
                           /\ q.tokens = {t} /\ q.user = req[r].user
  <2>1. req[r].pc # "idle"
    BY <1>1 DEF Storing
  <2> QED BY <1>2, <2>1, MovedRequest DEF IInv
<1>4. /\ memory' = [memory EXCEPT ![req[r].worker] = @ \cup {t}]
      /\ missed' = missed \cup {x \in {t} : req[r].pc = "sadd"}
      /\ req' = [req EXCEPT ![r] = q]
      /\ UNCHANGED <<accounts, access, facts, given, live, index>>
  BY <1>2, <1>3 DEF StoreInMemory, Goto, Carry
<1>5. memory' \in [Workers -> SUBSET Tokens] /\ missed' \subseteq Tokens
  BY <1>1, <1>4, StoredToken DEF IInv, TypeOK
<1>6. TypeRest'
  BY <1>4, <1>5, TypeParts DEF IInv, TypeRest, accounts, facts
<1>7. \A x : Findable(x) => Findable(x)'
  BY <1>4 DEF Findable, facts
<1>8. t \in live => Findable(t)'
  <2>1. CASE req[r].pc = "sadd"
    BY <1>4, <2>1 DEF Findable
  <2>2. CASE req[r].pc # "sadd"
    BY <1>1, <1>2, <1>7, <2>2 DEF Storing
  <2> QED BY <2>1, <2>2
<1>9. QOK(q)'
  BY <1>2, <1>3, <1>4, <1>8 DEF QOK, Uses, Storing, facts
<1> QED BY <1>1, <1>2, <1>3, <1>4, <1>6, <1>7, <1>9, SlotStep DEF facts

\* The free slot asks for nothing
LEMMA IdleOK == QOK(Idle)' /\ ~ Storing(Idle) /\ ~ Uses(Idle) /\ Idle \in InFlight \cup {Idle}
BY IdleHasNoStage DEF QOK, Uses, Storing

\* Handing out: the token is listed, or one that was missed
LEMMA AnswerStep ==
  ASSUME IInv, NEW r \in Slots, Answer(r)
  PROVE  IInv'
<1>1. Storing(req[r]) /\ req[r].pc = "stored"
  BY DEF Answer, Storing
<1>2. PICK t \in Tokens :
        /\ req[r].tokens = {t} /\ owner[t] = req[r].user /\ owner[t] # None
        /\ t \in live => Findable(t)
  BY <1>1, StoredToken
<1>3. /\ given' = given \cup {t} /\ access' = access \cup {req[r].user}
      /\ req' = [req EXCEPT ![r] = Idle]
      /\ UNCHANGED <<accounts, facts, store, missed, faults>>
  BY <1>2 DEF Answer, Carry
<1>4. TypeRest'
  BY <1>1, <1>2, <1>3, StoredToken, TypeParts DEF IInv, TypeRest, accounts, facts, store
<1>5. \A x : Findable(x) => Findable(x)'
  BY <1>3 DEF Findable, facts, store
<1> QED BY <1>1, <1>2, <1>3, <1>4, <1>5, IdleOK, SlotStep DEF facts, store

\* A token presented is looked up; nothing of the store changes but the memory of a worker
LEMMA QuietSlotStep ==
  ASSUME IInv, NEW r \in Slots, NEW q \in InFlight \cup {Idle}, req' = [req EXCEPT ![r] = q],
         ~ Storing(q), Uses(q) => q.token \in given, q.pc = "srem" => q.token \notin live,
         memory' \in [Workers -> SUBSET Tokens], faults' \in 0 .. MaxFaults,
         UNCHANGED <<accounts, access, facts, given, live, index, missed>>
  PROVE  IInv'
<1>1. TypeRest'
  BY TypeParts DEF IInv, TypeRest, accounts, facts
<1>2. QOK(q)'
  BY DEF QOK
<1>3. \A x : Findable(x) => Findable(x)'
  BY DEF Findable, facts
<1> QED BY <1>1, <1>2, <1>3, SlotStep DEF facts

\* A token presented is one that was given to somebody
LEMMA PresentStep ==
  ASSUME IInv, NEW r \in Slots, NEW op \in {"refresh", "logout"}, NEW w \in Workers, NEW t \in Tokens,
         \/ Present(r, op, w, t)
         \/ PresentInMemory(r, op, w, t) /\ faults' \in 0 .. MaxFaults
  PROVE  IInv'
<1>1. PICK q : q = [pc |-> "delete", op |-> op, worker |-> w, user |-> owner[t], token |-> t, tokens |-> {}]
  OBVIOUS
<1>2. t \in given /\ owner[t] \in Users
  BY DEF Present, PresentInMemory, IInv, TypeOK
<1>3. q \in InFlight /\ q.pc = "delete" /\ q.token = t
  BY <1>1, <1>2 DEF InFlight
<1>4. CASE Present(r, op, w, t)
  <2>1. req' = [req EXCEPT ![r] = q] /\ UNCHANGED <<accounts, access, facts, given, store, missed, faults>>
    BY <1>1, <1>4 DEF Present, Carry
  <2>2. ~ Storing(q) /\ memory' \in [Workers -> SUBSET Tokens] /\ faults' \in 0 .. MaxFaults
    BY <1>3, <2>1 DEF Storing, IInv, TypeOK, store
  <2> QED BY <1>2, <1>3, <2>1, <2>2, QuietSlotStep DEF store
<1>5. CASE PresentInMemory(r, op, w, t) /\ faults' \in 0 .. MaxFaults
  <2>1. /\ Validated(r, q) /\ UNCHANGED <<accounts, access, facts, given, live, index, missed>>
        /\ memory' = [memory EXCEPT ![w] = @ \ {t}]
    BY <1>1, <1>5 DEF PresentInMemory
  <2>2. PICK p \in InFlight \cup {Idle} :
          req' = [req EXCEPT ![r] = p] /\ (p = Idle \/ (p.pc = "user" /\ p.token = q.token))
    BY <1>3, <2>1, ValidatedStep
  <2>3. ~ Storing(p) /\ (Uses(p) => p.token \in given) /\ p.pc # "srem"
    BY <1>2, <1>3, <2>2, IdleHasNoStage DEF Storing, Uses
  <2>4. memory' \in [Workers -> SUBSET Tokens]
    BY <2>1 DEF IInv, TypeOK
  <2> QED BY <1>5, <2>1, <2>2, <2>3, <2>4, QuietSlotStep
<1> QED BY <1>4, <1>5

\* DEL: the hash of the token goes, or was gone
LEMMA DeleteStep ==
  ASSUME IInv, NEW r \in Slots, Delete(r)
  PROVE  IInv'
<1>1. req[r].pc = "delete" /\ req[r].token \in given
  BY DEF Delete, IInv, QOK, Uses
<1>2. PICK q \in InFlight : /\ q = [req[r] EXCEPT !.pc = "srem"] /\ q.pc = "srem"
                           /\ q.token = req[r].token
  BY <1>1, MovedRequest DEF IInv
<1>3. /\ live' = live \ {q.token} /\ req' = [req EXCEPT ![r] = q]
      /\ UNCHANGED <<accounts, access, facts, given, index, memory, missed, faults>>
  BY <1>2 DEF Delete, Deleted, Goto, Carry
<1>4. TypeRest'
  BY <1>3, TypeParts DEF IInv, TypeRest, accounts, facts
<1>5. QOK(q)' /\ ~ Storing(q)
  BY <1>1, <1>2, <1>3 DEF QOK, Uses, Storing
<1>6. \A x : Findable(x) => Findable(x)'
  BY <1>3 DEF Findable, facts
<1> QED BY <1>3, <1>4, <1>5, <1>6, SlotStep DEF facts

\* The token taken off the list has no hash any more
LEMMA SremStep ==
  ASSUME IInv, NEW r \in Slots, Srem(r)
  PROVE  IInv'
<1>1. req[r].pc = "srem" /\ req[r].token \in given /\ req[r].token \notin live
  BY DEF Srem, IInv, QOK, Uses
<1>2. req[r] \in InFlight
  BY <1>1, CarriedType DEF IInv
<1>3. /\ index' = [index EXCEPT ![req[r].user] = @ \ {req[r].token}]
      /\ UNCHANGED <<accounts, access, facts, given, live, memory, missed, faults>>
  BY DEF Srem
<1>4. PICK q \in InFlight \cup {Idle} :
        req' = [req EXCEPT ![r] = q] /\ (q = Idle \/ (q.pc = "user" /\ q.token = req[r].token))
  BY <1>2, ValidatedStep DEF Srem
<1>5. index' \in [Users -> SUBSET Tokens]
  BY <1>2, <1>3 DEF IInv, TypeOK, InFlight
<1>6. TypeRest'
  BY <1>3, <1>5, TypeParts DEF IInv, TypeRest, accounts, facts
<1>7. QOK(q)' /\ ~ Storing(q)
  BY <1>1, <1>3, <1>4, IdleHasNoStage DEF QOK, Uses, Storing
<1>8. ASSUME NEW x \in live, Findable(x) PROVE Findable(x)'
  <2>1. x # req[r].token
    BY <1>1
  <2>2. x \in index[owner[x]] => x \in index'[owner[x]]
    BY <1>3, <2>1 DEF IInv, TypeOK
  <2> QED BY <1>3, <1>8, <2>2 DEF Findable, facts
<1> QED BY <1>3, <1>4, <1>6, <1>7, <1>8, SlotStep DEF facts

\* The token is consumed in the memory of the worker
LEMMA ConsumeInMemoryStep ==
  ASSUME IInv, NEW r \in Slots, ConsumeInMemory(r), faults' \in 0 .. MaxFaults
  PROVE  IInv'
<1>1. req[r].pc \in {"delete", "srem"} /\ req[r].token \in given
  BY DEF ConsumeInMemory, IInv, QOK, Uses
<1>2. req[r] \in InFlight
  BY <1>1, CarriedType DEF IInv
<1>3. PICK q \in InFlight \cup {Idle} :
        req' = [req EXCEPT ![r] = q] /\ (q = Idle \/ (q.pc = "user" /\ q.token = req[r].token))
  BY <1>2, ValidatedStep, IdleOK DEF ConsumeInMemory, Carry
<1>4. ~ Storing(q) /\ (Uses(q) => q.token \in given) /\ q.pc # "srem"
  BY <1>1, <1>3, IdleHasNoStage DEF Storing, Uses
<1>5. memory' \in [Workers -> SUBSET Tokens]
  BY DEF ConsumeInMemory, IInv, TypeOK
<1> QED BY <1>3, <1>4, <1>5, QuietSlotStep DEF ConsumeInMemory

\* A refused request stores nothing
LEMMA RefuseStep ==
  ASSUME IInv, NEW r \in Slots, RefuseInactive(r)
  PROVE  IInv'
<1>1. req[r].pc = "user" /\ req[r].token \in given
  BY DEF RefuseInactive, IInv, QOK, Uses
<1>2. PICK q \in InFlight : /\ q = [req[r] EXCEPT !.pc = "family"] /\ q.pc = "family"
                           /\ q.token = req[r].token
  BY <1>1, MovedRequest DEF IInv
<1>3. req' = [req EXCEPT ![r] = q]
  BY <1>2 DEF RefuseInactive, Goto, Carry
<1>4. ~ Storing(q) /\ memory' \in [Workers -> SUBSET Tokens] /\ faults' \in 0 .. MaxFaults
  BY <1>2 DEF RefuseInactive, Storing, IInv, TypeOK, store
<1> QED BY <1>1, <1>2, <1>3, <1>4, QuietSlotStep DEF RefuseInactive, store

\* Of the list of its user, a refresh takes the tokens of its family to drop them
LEMMA ReadFamilyStep ==
  ASSUME IInv, NEW r \in Slots, ReadFamily(r)
  PROVE  IInv'
<1>1. req[r].pc = "family" /\ req[r].token \in given /\ req[r] \in InFlight
  BY CarriedType DEF ReadFamily, IInv, QOK, Uses
<1>2. PICK tokens \in SUBSET Tokens :
        tokens = {t \in index[req[r].user] \cap live : family[t] = family[req[r].token]}
  BY <1>1 DEF IInv, TypeOK
<1>3. PICK q : q = [req[r] EXCEPT !.pc = "drop", !.tokens = tokens]
  OBVIOUS
<1>4. q \in InFlight /\ q.pc = "drop" /\ q.token = req[r].token
  BY <1>1, <1>3 DEF InFlight
<1>5. req' = [req EXCEPT ![r] = q]
  BY <1>2, <1>3 DEF ReadFamily, Carry
<1>6. ~ Storing(q) /\ memory' \in [Workers -> SUBSET Tokens] /\ faults' \in 0 .. MaxFaults
  BY <1>4 DEF ReadFamily, Storing, IInv, TypeOK, store
<1> QED BY <1>1, <1>4, <1>5, <1>6, QuietSlotStep DEF ReadFamily, store

\* Logging out everywhere starts with the list of the user
LEMMA LogoutAllStep ==
  ASSUME IInv, NEW r \in Slots, NEW w \in Workers, NEW u \in Users, LogoutAll(r, w, u)
  PROVE  IInv'
<1>1. index[u] \in SUBSET Tokens
  BY DEF IInv, TypeOK
<1>2. PICK q : q = [pc |-> "revoke", op |-> "logout_all", worker |-> w, user |-> u,
                     token |-> None, tokens |-> index[u]]
  OBVIOUS
<1>3. q \in InFlight /\ q.pc = "revoke"
  BY <1>1, <1>2 DEF InFlight
<1>4. req' = [req EXCEPT ![r] = q]
  BY <1>2 DEF LogoutAll, Carry
<1>5. ~ Storing(q) /\ ~ Uses(q) /\ memory' \in [Workers -> SUBSET Tokens] /\ faults' \in 0 .. MaxFaults
  BY <1>3 DEF LogoutAll, Storing, Uses, IInv, TypeOK, store
<1> QED BY <1>3, <1>4, <1>5, QuietSlotStep DEF LogoutAll, store

\* What is taken off the list loses its hash in the same pipeline
LEMMA DropFamilyStep ==
  ASSUME IInv, NEW r \in Slots, DropFamily(r)
  PROVE  IInv'
<1>1. req[r] \in InFlight
  BY CarriedType DEF DropFamily, IInv
<1>2. /\ live' = live \ req[r].tokens
      /\ index' = [index EXCEPT ![req[r].user] = @ \ req[r].tokens]
      /\ req' = [req EXCEPT ![r] = Idle]
      /\ UNCHANGED <<accounts, access, facts, given, memory, missed, faults>>
  BY DEF DropFamily, Carry
<1>3. index' \in [Users -> SUBSET Tokens]
  BY <1>1, <1>2 DEF InFlight, IInv, TypeOK
<1>4. TypeRest'
  BY <1>2, <1>3, TypeParts DEF IInv, TypeRest, accounts, facts
<1>5. ASSUME NEW x \in live', Findable(x) PROVE Findable(x)'
  BY <1>2, <1>5 DEF Findable, facts, IInv, TypeOK
<1> QED BY <1>2, <1>4, <1>5, IdleOK, SlotStep DEF facts

\* The whole list goes: what was put on it after it was read is missed
LEMMA RevokeStep ==
  ASSUME IInv, NEW r \in Slots, Revoke(r)
  PROVE  IInv'
<1>1. req[r] \in InFlight
  BY CarriedType DEF Revoke, IInv
<1>2. /\ live' = live \ req[r].tokens
      /\ index' = IF req[r].tokens = {} THEN index ELSE [index EXCEPT ![req[r].user] = {}]
      /\ missed' = missed \cup (IF req[r].tokens = {} THEN {} ELSE index[req[r].user] \ req[r].tokens)
      /\ req' = [req EXCEPT ![r] = Idle]
      /\ UNCHANGED <<accounts, access, facts, given, memory, faults>>
  BY DEF Revoke, Carry
<1>3. index' \in [Users -> SUBSET Tokens] /\ missed' \subseteq Tokens
  BY <1>1, <1>2 DEF InFlight, IInv, TypeOK
<1>4. TypeRest'
  BY <1>2, <1>3, TypeParts DEF IInv, TypeRest, accounts, facts
<1>5. ASSUME NEW x \in live', Findable(x) PROVE Findable(x)'
  BY <1>2, <1>5 DEF Findable, facts, IInv, TypeOK
<1> QED BY <1>2, <1>4, <1>5, IdleOK, SlotStep DEF facts

\* A worker forgets the tokens of a family, or of a user, it has in memory
LEMMA ForgetStep ==
  ASSUME IInv, NEW r \in Slots, ForgetInMemory(r), faults' \in 0 .. MaxFaults
  PROVE  IInv'
<1>1. req' = [req EXCEPT ![r] = Idle] /\ UNCHANGED <<accounts, access, facts, given, live, index, missed>>
  BY DEF ForgetInMemory, Carry
<1>2. memory' \in [Workers -> SUBSET Tokens]
  BY DEF ForgetInMemory, IInv, TypeOK
<1> QED BY <1>1, <1>2, IdleOK, IdleHasNoStage, QuietSlotStep

\* A failing command starts the call over on the memory of the worker
LEMMA FaultStep ==
  ASSUME IInv, NEW r \in Slots, Fault(r)
  PROVE  IInv'
<1>1. faults' \in 0 .. MaxFaults
  BY BoundsAssumption DEF Fault, IInv, TypeOK
<1> QED BY <1>1, StoreInMemoryStep, ConsumeInMemoryStep, ForgetStep, PresentStep DEF Fault

\* Every step keeps the invariant
LEMMA InvStep ==
  ASSUME IInv, [Next]_vars
  PROVE  IInv'
<1>1. CASE UNCHANGED vars
  <2>1. TypeRest'
    BY <1>1, TypeParts DEF IInv, TypeRest, vars, accounts, facts, store
  <2> QED BY <1>1, <2>1, QuietStep DEF vars, accounts, facts, store
<1>2. CASE Next
  BY <1>2, AccountStep, ExpireStep, LogoutAllStep, LoginStep, PresentStep, DeleteStep, SremStep,
     RefuseStep, ExchangeStep, HsetStep, SaddStep, AnswerStep, ReadFamilyStep, DropFamilyStep,
     RevokeStep, FaultStep DEF Next
<1> QED BY <1>1, <1>2

\* It holds at the start
LEMMA InvInit == Init => IInv
<1> SUFFICES ASSUME Init PROVE IInv
  OBVIOUS
<1>1. TypeOK
  BY BoundsAssumption DEF Init, TypeOK
<1>2. \A r \in Slots : QOK(req[r]) /\ ~ Storing(req[r])
  BY IdleHasNoStage DEF Init, QOK, Uses, Storing
<1> QED BY <1>1, <1>2 DEF Init, IInv, Distinct, ListedOrMissed

\* It is one
LEMMA Invariant == Spec => []IInv
BY InvInit, InvStep, PTL DEF Spec

(* ------------------------------ theorems ------------------------------ *)

\* The accounts, the store, the facts about tokens and the requests keep their types
THEOREM TypeCorrect == Spec => []TypeOK
<1>1. IInv => TypeOK
  BY DEF IInv
<1> QED BY <1>1, Invariant, PTL

\* Whatever overlaps, every token a client can use from Redis is on the list of its user, or is
\* one of those a failing command or an overlapping logout/all is known to have left out
THEOREM UsableIsListed == Spec => []ListedOrMissed
<1>1. IInv => ListedOrMissed
  BY DEF IInv
<1> QED BY <1>1, Invariant, PTL

(* --------------------------- one at a time --------------------------- *)

\* Nothing was left out, and logout/all has read the list as it is
NothingMissed ==
  /\ missed = {}
  /\ \A r \in Slots : req[r].pc = "revoke" => req[r].tokens = index[req[r].user]

\* "Revoke all refresh tokens for a user", as token_store.py promises, when no command fails and
\* requests follow one another: claim_logout_all refutes it for two that overlap
THEOREM AllRevocableThen ==
  ASSUME MaxFaults = 0, \A r, s \in Slots : r = s
  PROVE  Spec => []Revocable
<1>1. Init => NothingMissed
  BY IdleHasNoStage DEF Init, NothingMissed
<1>2. ASSUME IInv, NothingMissed, [Next]_vars PROVE NothingMissed'
  <2> USE DEF facts, store, accounts
  <2>1. CASE UNCHANGED vars
    BY <1>2, <2>1 DEF vars, NothingMissed
  <2>2. ASSUME \/ \E u \in Users : Register(u) \/ SetActive(u) \/ AccessExpires(u)
               \/ \E t \in Tokens : Expire(t)
        PROVE  NothingMissed'
    BY <1>2, <2>2 DEF NothingMissed, Register, SetActive, AccessExpires, Edit, Expire
  <2>3. ASSUME NEW r \in Slots, missed' = {}, req'[r].pc # "revoke" PROVE NothingMissed'
    BY <2>3 DEF NothingMissed
  <2>4. ASSUME NEW r \in Slots, NEW w \in Workers, NEW u \in Users, LogoutAll(r, w, u)
        PROVE  NothingMissed'
    <3>1. req'[r].tokens = index'[u] /\ req'[r].user = u /\ missed' = missed
      BY <1>2, <2>4 DEF LogoutAll, Carry, IInv, TypeOK
    <3> QED BY <1>2, <3>1 DEF NothingMissed
  <2>5. ASSUME NEW r \in Slots, Revoke(r) PROVE NothingMissed'
    <3>1. missed' = {}
      BY <1>2, <2>5 DEF Revoke, NothingMissed
    <3>2. req'[r].pc # "revoke"
      BY <1>2, <2>5, IdleHasNoStage DEF Revoke, Carry, IInv, TypeOK
    <3> QED BY <2>3, <3>1, <3>2
  <2>6. ASSUME NEW r \in Slots,
               \/ \E op \in {"refresh", "logout"}, w \in Workers, t \in Tokens : Present(r, op, w, t)
               \/ \E w \in Workers, u \in Users, t \in Tokens : Login(r, w, u, t)
               \/ \E t \in Tokens : Exchange(r, t)
        PROVE  NothingMissed'
    <3>1. missed' = {}
      BY <1>2, <2>6 DEF Present, Login, Exchange, NothingMissed
    <3>2. req'[r].pc # "revoke"
      <4>1. CASE \E op \in {"refresh", "logout"}, w \in Workers, t \in Tokens : Present(r, op, w, t)
        BY <1>2, <4>1 DEF Present, Carry, IInv, TypeOK
      <4>2. CASE \E w \in Workers, u \in Users, t \in Tokens : Login(r, w, u, t)
        BY <1>2, <4>2 DEF Login, NewToken, Carry, IInv, TypeOK
      <4>3. CASE \E t \in Tokens : Exchange(r, t)
        <5>1. req[r] \in InFlight
          BY <1>2, <4>3, CarriedType DEF Exchange, IInv
        <5> QED BY <1>2, <4>3, <5>1 DEF Exchange, NewToken, Carry, IInv, TypeOK, InFlight
      <4> QED BY <2>6, <4>1, <4>2, <4>3
    <3> QED BY <2>3, <3>1, <3>2
  <2>7. ASSUME NEW r \in Slots, Delete(r) \/ RefuseInactive(r) \/ Hset(r) \/ Sadd(r) \/ ReadFamily(r)
        PROVE  NothingMissed'
    <3>1. missed' = {} /\ req[r] \in InFlight
      BY <1>2, <2>7, CarriedType
         DEF Delete, RefuseInactive, Hset, Sadd, ReadFamily, NothingMissed, IInv
    <3>2. CASE Delete(r) \/ RefuseInactive(r) \/ Hset(r) \/ Sadd(r)
      <4>1. PICK pc \in {"srem", "family", "sadd", "stored"} : req' = [req EXCEPT ![r] = [req[r] EXCEPT !.pc = pc]]
        BY <3>2 DEF Delete, RefuseInactive, Hset, Sadd, Goto, Carry
      <4>2. req'[r].pc # "revoke"
        BY <1>2, <3>1, <4>1 DEF InFlight, IInv, TypeOK
      <4> QED BY <2>3, <3>1, <4>2
    <3>3. CASE ReadFamily(r)
      <4>1. req'[r].pc # "revoke"
        BY <1>2, <3>1, <3>3 DEF ReadFamily, Carry, InFlight, IInv, TypeOK
      <4> QED BY <2>3, <3>1, <4>1
    <3> QED BY <2>7, <3>2, <3>3
  <2>8. ASSUME NEW r \in Slots, Srem(r) PROVE NothingMissed'
    <3>1. missed' = {} /\ req[r] \in InFlight /\ Validated(r, req[r])
      BY <1>2, <2>8, CarriedType DEF Srem, NothingMissed, IInv
    <3>2. PICK p \in InFlight \cup {Idle} :
            req' = [req EXCEPT ![r] = p] /\ (p = Idle \/ (p.pc = "user" /\ p.token = req[r].token))
      BY <3>1, ValidatedStep
    <3>3. req'[r].pc # "revoke"
      BY <1>2, <3>2, IdleHasNoStage DEF IInv, TypeOK
    <3> QED BY <2>3, <3>1, <3>3
  <2>9. ASSUME NEW r \in Slots, Answer(r) \/ DropFamily(r) PROVE NothingMissed'
    <3>1. missed' = {} /\ req'[r].pc # "revoke"
      BY <1>2, <2>9, IdleHasNoStage DEF Answer, DropFamily, Carry, NothingMissed, IInv, TypeOK
    <3> QED BY <2>3, <3>1
  <2>10. ASSUME NEW r \in Slots PROVE ~ Fault(r)
    BY <1>2 DEF Fault, IInv, TypeOK
  <2> QED
    BY <1>2, <2>1, <2>2, <2>4, <2>5, <2>6, <2>7, <2>8, <2>9, <2>10 DEF Next
<1>3. IInv /\ NothingMissed => Revocable
  BY DEF IInv, ListedOrMissed, NothingMissed, Revocable
<1> QED BY <1>1, <1>2, <1>3, Invariant, PTL DEF Spec

(* --------------------------- spent tokens are gone -------------------- *)

\* Is t past its validation on the way to a new token, or already exchanged for one?
Past(t) ==
  \/ \E x \in Tokens : parent[x] = t
  \/ \E r \in Slots : req[r].pc = "user" /\ req[r].token = t

\* The tokens with a copy in some memory, and those past validation that still have their hash:
\* it takes a failing command to make a token one of them
Hurt == {t \in Tokens : (\E w \in Workers : t \in memory[w]) \/ (t \in live /\ Past(t))}

\* What is exchanged was given to somebody
ParentsGiven == \A x \in Tokens : parent[x] # None => parent[x] \in given

\* A step that fills no memory, revives nothing and lets no request past validation
LEMMA NoNewHurt ==
  ASSUME parent' = parent, live' \subseteq live,
         \A w \in Workers : memory'[w] \subseteq memory[w],
         \A r \in Slots : req'[r].pc = "user" => req'[r] = req[r]
  PROVE  Hurt' \subseteq Hurt
BY DEF Hurt, Past

\* A step of r that may let its request past validation, if the hash of the token is gone or a
\* memory holds it
LEMMA ValidatedHurt ==
  ASSUME parent' = parent, live' = live, \A w \in Workers : memory'[w] \subseteq memory[w],
         NEW r \in Slots, NEW t, t \notin live \/ \E w \in Workers : t \in memory[w],
         \A s \in Slots \ {r} : req'[s] = req[s],
         req'[r].pc = "user" => req'[r].token = t
  PROVE  Hurt' \subseteq Hurt
<1> SUFFICES ASSUME NEW x \in Tokens, x \in Hurt' PROVE x \in Hurt
  BY DEF Hurt
<1>1. CASE \E w \in Workers : x \in memory'[w]
  BY <1>1 DEF Hurt
<1>2. CASE x \in live' /\ Past(x)'
  <2>1. CASE x = t
    BY <1>2, <2>1 DEF Hurt
  <2>2. CASE x # t
    <3>1. Past(x)
      BY <1>2, <2>2 DEF Past
    <3> QED BY <1>2, <3>1 DEF Hurt
  <2> QED BY <2>1, <2>2
<1> QED BY <1>1, <1>2 DEF Hurt

\* What a step does to the hurt tokens: only a fault adds one
LEMMA HurtStep ==
  ASSUME IInv, ParentsGiven, [Next]_vars
  PROVE  \/ Hurt' \subseteq Hurt /\ faults' = faults
         \/ faults' = faults + 1 /\ \E t : Hurt' \subseteq Hurt \cup {t}
<1> USE DEF facts, store, accounts
<1>1. CASE UNCHANGED vars
  BY <1>1, NoNewHurt DEF vars
<1>2. ASSUME NEW u \in Users, Register(u) \/ SetActive(u) \/ AccessExpires(u)
      PROVE  Hurt' \subseteq Hurt /\ faults' = faults
  BY <1>2, NoNewHurt DEF Register, SetActive, AccessExpires, Edit
<1>3. ASSUME NEW t \in Tokens, Expire(t) PROVE Hurt' \subseteq Hurt /\ faults' = faults
  BY <1>3, NoNewHurt DEF Expire
<1>4. ASSUME NEW r \in Slots,
             \/ \E w \in Workers, u \in Users : LogoutAll(r, w, u)
             \/ \E op \in {"refresh", "logout"}, w \in Workers, t \in Tokens : Present(r, op, w, t)
             \/ Delete(r) \/ RefuseInactive(r) \/ Sadd(r) \/ Answer(r)
             \/ ReadFamily(r) \/ DropFamily(r) \/ Revoke(r)
      PROVE  Hurt' \subseteq Hurt /\ faults' = faults
  <2>1. parent' = parent /\ live' \subseteq live /\ memory' = memory /\ faults' = faults
    BY <1>4 DEF LogoutAll, Present, Delete, RefuseInactive, Sadd, Answer, ReadFamily, DropFamily, Revoke,
       Deleted
  <2>2. \A s \in Slots : req'[s].pc = "user" => req'[s] = req[s]
    <3>1. \A s \in Slots \ {r} : req'[s] = req[s]
      BY <1>4 DEF LogoutAll, Present, Delete, RefuseInactive, Sadd, Answer, ReadFamily, DropFamily,
         Revoke, Goto, Carry, IInv, TypeOK
    <3>2. req[r].pc \in {"delete", "user", "sadd", "family"} => req[r] \in InFlight
      BY CarriedType DEF IInv
    <3>3. req'[r].pc # "user"
      <4>1. CASE (\E w \in Workers, u \in Users : LogoutAll(r, w, u)) \/ Answer(r) \/ DropFamily(r) \/ Revoke(r)
                   \/ \E op \in {"refresh", "logout"}, w \in Workers, t \in Tokens : Present(r, op, w, t)
        BY <4>1, IdleHasNoStage DEF LogoutAll, Present, Answer, DropFamily, Revoke, Carry, IInv, TypeOK
      <4>2. CASE Delete(r) \/ RefuseInactive(r) \/ Sadd(r)
        BY <4>2, <3>2 DEF Delete, RefuseInactive, Sadd, Goto, Carry, InFlight, IInv, TypeOK
      <4>3. CASE ReadFamily(r)
        BY <4>3, <3>2 DEF ReadFamily, Carry, InFlight, IInv, TypeOK
      <4> QED BY <1>4, <4>1, <4>2, <4>3
    <3> QED BY <3>1, <3>3
  <2> QED BY <2>1, <2>2, NoNewHurt
<1>5. ASSUME NEW r \in Slots, NEW t \in Tokens,
             (\E w \in Workers, u \in Users : Login(r, w, u, t)) \/ Exchange(r, t)
      PROVE  Hurt' \subseteq Hurt /\ faults' = faults
  <2>1. live' = live /\ memory' = memory /\ faults' = faults
    BY <1>5 DEF Login, Exchange
  <2>2. \A y \in Tokens : \/ parent'[y] = parent[y] \/ parent'[y] = None
                          \/ req[r].pc = "user" /\ parent'[y] = req[r].token
    BY <1>5 DEF Login, Exchange, NewToken, IInv, TypeOK
  <2>3. \A s \in Slots : req'[s].pc = "user" => req'[s] = req[s]
    <3>1. CASE \E w \in Workers, u \in Users : Login(r, w, u, t)
      <4>1. req'[r].pc = "hset" /\ \A s \in Slots \ {r} : req'[s] = req[s]
        BY <3>1 DEF Login, NewToken, Carry, IInv, TypeOK
      <4> QED BY <4>1
    <3>2. CASE Exchange(r, t)
      <4>1. req[r] \in InFlight
        BY <3>2, CarriedType DEF Exchange, IInv
      <4>2. req'[r].pc = "hset" /\ \A s \in Slots \ {r} : req'[s] = req[s]
        BY <3>2, <4>1 DEF Exchange, NewToken, Carry, InFlight, IInv, TypeOK
      <4> QED BY <4>2
    <3> QED BY <1>5, <3>1, <3>2
  <2>4. ASSUME NEW x \in Tokens, Past(x)' PROVE Past(x)
    BY <2>2, <2>3, <2>4, NoneAssumption DEF Past
  <2> QED BY <2>1, <2>4 DEF Hurt
<1>6. ASSUME NEW r \in Slots, Hset(r) PROVE Hurt' \subseteq Hurt /\ faults' = faults
  <2>1. Storing(req[r]) /\ req[r].pc = "hset"
    BY <1>6 DEF Hset, Storing
  <2>2. PICK t \in Tokens : req[r].tokens = {t} /\ t \notin given
    BY <2>1, StoredToken
  <2>3. parent' = parent /\ live' = live \cup {t} /\ memory' = memory /\ faults' = faults
    BY <1>6, <2>2 DEF Hset
  <2>4. \A s \in Slots : req'[s].pc = "user" => req'[s] = req[s]
    <3>1. req[r] \in InFlight
      BY <2>1, StoredToken
    <3>2. req'[r].pc = "sadd" /\ \A s \in Slots \ {r} : req'[s] = req[s]
      BY <1>6, <3>1 DEF Hset, Goto, Carry, InFlight, IInv, TypeOK
    <3> QED BY <3>2
  <2>5. \A x \in Tokens : Past(x)' => Past(x)
    BY <2>3, <2>4 DEF Past
  <2>6. ~ Past(t)
    <3>1. \A s \in Slots : req[s].pc = "user" => req[s].token \in given
      BY DEF IInv, QOK, Uses
    <3> QED BY <2>2, <3>1, NoneAssumption DEF Past, ParentsGiven
  <2> QED BY <2>3, <2>5, <2>6 DEF Hurt
<1>7. ASSUME NEW r \in Slots, Srem(r) PROVE Hurt' \subseteq Hurt /\ faults' = faults
  <2>1. req[r].pc = "srem" /\ req[r].token \notin live /\ req[r] \in InFlight
    BY <1>7, CarriedType DEF Srem, IInv, QOK
  <2>2. parent' = parent /\ live' = live /\ memory' = memory /\ faults' = faults /\ Validated(r, req[r])
    BY <1>7 DEF Srem
  <2>3. PICK p \in InFlight \cup {Idle} :
          req' = [req EXCEPT ![r] = p] /\ (p = Idle \/ (p.pc = "user" /\ p.token = req[r].token))
    BY <2>1, <2>2, ValidatedStep
  <2>4. /\ \A s \in Slots \ {r} : req'[s] = req[s]
        /\ req'[r].pc = "user" => req'[r].token = req[r].token
    BY <2>3, IdleHasNoStage DEF IInv, TypeOK
  <2> QED BY <2>1, <2>2, <2>4, ValidatedHurt
<1>8. ASSUME NEW r \in Slots, ConsumeInMemory(r) PROVE Hurt' \subseteq Hurt
  <2>1. req[r] \in InFlight
    BY <1>8, CarriedType DEF ConsumeInMemory, IInv
  <2>2. /\ parent' = parent /\ live' = live
        /\ \A w \in Workers : memory'[w] \subseteq memory[w]
    BY <1>8 DEF ConsumeInMemory, IInv, TypeOK
  <2>3. CASE req[r].token \in memory[req[r].worker]
    <3>1. PICK p \in InFlight \cup {Idle} :
            req' = [req EXCEPT ![r] = p] /\ (p = Idle \/ (p.pc = "user" /\ p.token = req[r].token))
      BY <1>8, <2>1, <2>3, ValidatedStep DEF ConsumeInMemory
    <3>2. /\ \A s \in Slots \ {r} : req'[s] = req[s]
          /\ req'[r].pc = "user" => req'[r].token = req[r].token
      BY <3>1, IdleHasNoStage DEF IInv, TypeOK
    <3>3. PICK t : t = req[r].token
      OBVIOUS
    <3>4. \E w \in Workers : t \in memory[w]
      BY <2>1, <2>3, <3>3 DEF InFlight
    <3>5. req'[r].pc = "user" => req'[r].token = t
      BY <3>2, <3>3
    <3> QED BY <2>2, <3>2, <3>4, <3>5, ValidatedHurt
  <2>4. CASE req[r].token \notin memory[req[r].worker]
    <3>1. \A s \in Slots : req'[s].pc = "user" => req'[s] = req[s]
      BY <1>8, <2>4, IdleHasNoStage DEF ConsumeInMemory, Carry, IInv, TypeOK
    <3> QED BY <2>2, <3>1, NoNewHurt
  <2> QED BY <2>3, <2>4
<1>9. ASSUME NEW r \in Slots, NEW op \in {"refresh", "logout"}, NEW w \in Workers, NEW t \in Tokens,
             PresentInMemory(r, op, w, t)
      PROVE  Hurt' \subseteq Hurt
  <2>1. PICK q : q = [pc |-> "delete", op |-> op, worker |-> w, user |-> owner[t], token |-> t, tokens |-> {}]
    OBVIOUS
  <2>2. t \in memory[w] /\ owner[t] \in Users /\ Validated(r, q)
    BY <1>9, <2>1 DEF PresentInMemory, IInv, TypeOK
  <2>3. q \in InFlight /\ q.token = t
    BY <2>1, <2>2 DEF InFlight
  <2>4. PICK p \in InFlight \cup {Idle} :
          req' = [req EXCEPT ![r] = p] /\ (p = Idle \/ (p.pc = "user" /\ p.token = t))
    BY <2>2, <2>3, ValidatedStep
  <2>5. /\ \A s \in Slots \ {r} : req'[s] = req[s]
        /\ req'[r].pc = "user" => req'[r].token = t
    BY <2>4, IdleHasNoStage DEF IInv, TypeOK
  <2>6. /\ parent' = parent /\ live' = live
        /\ \A x \in Workers : memory'[x] \subseteq memory[x]
    BY <1>9 DEF PresentInMemory, IInv, TypeOK
  <2> QED BY <2>2, <2>5, <2>6, ValidatedHurt
<1>10. ASSUME NEW r \in Slots, ForgetInMemory(r) PROVE Hurt' \subseteq Hurt
  <2>1. /\ parent' = parent /\ live' = live
        /\ \A w \in Workers : memory'[w] \subseteq memory[w]
        /\ \A s \in Slots : req'[s].pc = "user" => req'[s] = req[s]
    BY <1>10, IdleHasNoStage DEF ForgetInMemory, Carry, IInv, TypeOK
  <2> QED BY <2>1, NoNewHurt
<1>11. ASSUME NEW r \in Slots, StoreInMemory(r) PROVE \E t : Hurt' \subseteq Hurt \cup {t}
  <2>1. Storing(req[r])
    BY <1>11 DEF StoreInMemory, Storing
  <2>2. PICK t \in Tokens : req[r].tokens = {t}
    BY <2>1, StoredToken
  <2>3. req[r] \in InFlight
    BY <2>1, StoredToken
  <2>4. /\ parent' = parent /\ live' = live
        /\ \A w \in Workers : memory'[w] \subseteq memory[w] \cup {t}
    BY <1>11, <2>2 DEF StoreInMemory, IInv, TypeOK
  <2>5. \A s \in Slots : req'[s].pc = "user" => req'[s] = req[s]
    BY <1>11, <2>3 DEF StoreInMemory, Goto, Carry, InFlight, IInv, TypeOK
  <2>6. \A x \in Tokens : Past(x)' => Past(x)
    BY <2>4, <2>5 DEF Past
  <2>7. Hurt' \subseteq Hurt \cup {t}
    BY <2>4, <2>6 DEF Hurt
  <2> QED BY <2>7
<1>12. ASSUME NEW r \in Slots, Fault(r)
       PROVE  faults' = faults + 1 /\ \E t : Hurt' \subseteq Hurt \cup {t}
  <2>1. Hurt' \subseteq Hurt \/ \E t : Hurt' \subseteq Hurt \cup {t}
    BY <1>8, <1>9, <1>10, <1>11, <1>12 DEF Fault
  <2> QED BY <1>12, <2>1 DEF Fault
<1> QED BY <1>1, <1>2, <1>3, <1>4, <1>5, <1>6, <1>7, <1>12 DEF Next

\* What is exchanged stays given
LEMMA ParentsStep ==
  ASSUME IInv, ParentsGiven, [Next]_vars
  PROVE  ParentsGiven'
<1> USE DEF facts, store, accounts
<1>1. ASSUME NEW r \in Slots, NEW t \in Tokens, Exchange(r, t) PROVE ParentsGiven'
  <2>1. req[r].token \in given
    BY <1>1 DEF Exchange, IInv, QOK, Uses
  <2> QED BY <1>1, <2>1 DEF Exchange, NewToken, ParentsGiven, IInv, TypeOK
<1>2. ASSUME NEW r \in Slots, NEW w \in Workers, NEW u \in Users, NEW t \in Tokens, Login(r, w, u, t)
      PROVE  ParentsGiven'
  BY <1>2 DEF Login, NewToken, ParentsGiven, IInv, TypeOK
<1>3. ASSUME parent' = parent, given \subseteq given' PROVE ParentsGiven'
  BY <1>3 DEF ParentsGiven
<1>4. CASE UNCHANGED vars
  BY <1>3, <1>4 DEF vars
<1>5. ASSUME NEW u \in Users, Register(u) \/ SetActive(u) \/ AccessExpires(u) PROVE ParentsGiven'
  BY <1>3, <1>5 DEF Register, SetActive, AccessExpires, Edit
<1>6. ASSUME NEW t \in Tokens, Expire(t) PROVE ParentsGiven'
  BY <1>3, <1>6 DEF Expire
<1>7. ASSUME NEW r \in Slots,
             \/ \E w \in Workers, u \in Users : LogoutAll(r, w, u)
             \/ \E op \in {"refresh", "logout"}, w \in Workers, t \in Tokens : Present(r, op, w, t)
             \/ Delete(r) \/ Srem(r) \/ RefuseInactive(r) \/ Hset(r) \/ Sadd(r) \/ Answer(r)
             \/ ReadFamily(r) \/ DropFamily(r) \/ Revoke(r)
      PROVE  ParentsGiven'
  BY <1>3, <1>7 DEF LogoutAll, Present, Delete, Srem, RefuseInactive, Hset, Sadd, Answer, ReadFamily,
     DropFamily, Revoke
<1>8. ASSUME NEW r \in Slots, Fault(r) PROVE ParentsGiven'
  BY <1>3, <1>8 DEF Fault, StoreInMemory, ConsumeInMemory, ForgetInMemory, PresentInMemory
<1> QED BY <1>1, <1>2, <1>4, <1>5, <1>6, <1>7, <1>8 DEF Next

\* Each hurt token took a fault of its own
HurtBounded == ParentsGiven /\ IsFiniteSet(Hurt) /\ Cardinality(Hurt) <= faults

\* An exchanged token is usable again only through a failing command, and each of those leaves
\* at most one token behind
THEOREM SpentIsAlwaysGone == Spec => []SpentIsGone
<1>1. Init => HurtBounded
  <2> SUFFICES ASSUME Init PROVE HurtBounded
    OBVIOUS
  <2>1. Hurt = {} /\ ParentsGiven
    BY NoneAssumption DEF Init, Hurt, ParentsGiven
  <2> QED BY <2>1, FS_EmptySet DEF Init, HurtBounded
<1>2. IInv /\ HurtBounded /\ [Next]_vars => HurtBounded'
  <2> SUFFICES ASSUME IInv, HurtBounded, [Next]_vars PROVE HurtBounded'
    OBVIOUS
  <2>1. IsFiniteSet(Hurt) /\ Cardinality(Hurt) \in Nat /\ Cardinality(Hurt) <= faults /\ faults \in Nat
    BY FS_CardinalityType, BoundsAssumption DEF HurtBounded, IInv, TypeOK
  <2>2. ParentsGiven'
    BY ParentsStep DEF HurtBounded
  <2>3. CASE Hurt' \subseteq Hurt /\ faults' = faults
    <3>1. IsFiniteSet(Hurt') /\ Cardinality(Hurt') <= Cardinality(Hurt)
      BY <2>1, <2>3, FS_Subset
    <3>2. Cardinality(Hurt') \in Nat
      BY <3>1, FS_CardinalityType
    <3> QED BY <2>1, <2>2, <2>3, <3>1, <3>2 DEF HurtBounded
  <2>4. CASE faults' = faults + 1 /\ \E t : Hurt' \subseteq Hurt \cup {t}
    <3>1. PICK t : Hurt' \subseteq Hurt \cup {t}
      BY <2>4
    <3>2. /\ IsFiniteSet(Hurt \cup {t})
          /\ Cardinality(Hurt \cup {t}) = IF t \in Hurt THEN Cardinality(Hurt) ELSE Cardinality(Hurt) + 1
      BY <2>1, FS_AddElement
    <3>3. IsFiniteSet(Hurt') /\ Cardinality(Hurt') <= Cardinality(Hurt \cup {t})
      BY <3>1, <3>2, FS_Subset
    <3>4. Cardinality(Hurt') \in Nat
      BY <3>3, FS_CardinalityType
    <3>5. Cardinality(Hurt') <= faults'
      BY <2>1, <2>4, <3>2, <3>3, <3>4
    <3> QED BY <2>2, <3>3, <3>5 DEF HurtBounded
  <2> QED BY <2>3, <2>4, HurtStep DEF HurtBounded
<1>3. IInv /\ HurtBounded => SpentIsGone
  <2> SUFFICES ASSUME IInv, HurtBounded PROVE SpentIsGone
    OBVIOUS
  <2>1. {t \in Tokens : Exchanged(t) # {} /\ Usable(t)} \subseteq Hurt
    BY DEF Exchanged, Usable, Hurt, Past, IInv, TypeOK
  <2>2. /\ IsFiniteSet({t \in Tokens : Exchanged(t) # {} /\ Usable(t)})
        /\ Cardinality({t \in Tokens : Exchanged(t) # {} /\ Usable(t)}) <= Cardinality(Hurt)
    BY <2>1, FS_Subset DEF HurtBounded
  <2>3. /\ Cardinality({t \in Tokens : Exchanged(t) # {} /\ Usable(t)}) \in Nat
        /\ Cardinality(Hurt) \in Nat
    BY <2>2, FS_CardinalityType DEF HurtBounded
  <2>4. faults \in Nat
    BY BoundsAssumption DEF IInv, TypeOK
  <2> QED BY <2>2, <2>3, <2>4 DEF HurtBounded, SpentIsGone
<1> QED BY <1>1, <1>2, <1>3, Invariant, PTL DEF Spec

=============================================================================
