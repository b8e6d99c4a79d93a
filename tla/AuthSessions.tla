---------------------------- MODULE AuthSessions ----------------------------
(***************************************************************************)
(* Refresh tokens: api/auth.py over core/token_store.py, and the accounts  *)
(* of the users table they are checked against.                            *)
(*                                                                         *)
(* The store is Redis: a hash per token and a set of the tokens of each    *)
(* user.  Every command is awaited, so requests interleave between them,   *)
(* and any of them may fail: the function then starts over with the dicts  *)
(* in the memory of its worker.  A request goes through                    *)
(*   refresh, logout  delete -> srem                 token consumed        *)
(*   refresh          user                           account looked up     *)
(*   login, refresh   hset -> sadd -> stored         new token stored      *)
(*   refresh          family -> drop                 family invalidated    *)
(*   logout/all       revoke                         tokens revoked        *)
(***************************************************************************)
EXTENDS FiniteSets, Naturals

CONSTANTS
  Users,      \* ids and names of users
  Tokens,     \* the refresh tokens that can be generated
  Slots,      \* the requests that can be in flight at once
  Workers,    \* the server processes
  MaxFaults,  \* how many commands of Redis may fail
  MaxEdits,   \* how many times accounts are registered, disabled or enabled
  None

ASSUME BoundsAssumption == MaxFaults \in Nat /\ MaxEdits \in Nat
ASSUME NoneAssumption == None \notin Users /\ None \notin Tokens

VARIABLES
  account,   \* users.is_active, or "none" where there is no row
  access,    \* who holds an access token that has not expired: it cannot be revoked
  owner,     \* user_id of the hash of each token
  family,    \* its family_id, named after the token of the login
  parent,    \* the token it was exchanged for
  given,     \* the tokens clients were told of
  live,      \* the tokens with a hash in Redis
  index,     \* user_tokens:<id> in Redis
  memory,    \* _mem_refresh of each worker
  missed,    \* history: the tokens a failed SADD or a revocation under way left unlisted
  req,       \* the request in each slot
  faults,    \* how many commands failed
  edits      \* how many times accounts changed

accounts == <<account, edits>>
facts == <<owner, family, parent>>
store == <<live, index, memory>>
vars == <<accounts, access, facts, given, store, missed, req, faults>>

(* ------------------------------- types -------------------------------- *)

Idle == [pc |-> "idle"]

\* token: the one presented; tokens: the ones listed, or the one being stored
InFlight == [pc : {"delete", "srem", "user", "hset", "sadd", "stored", "family", "drop", "revoke"},
             op : {"login", "refresh", "logout", "logout_all"},
             worker : Workers, user : Users, token : Tokens \cup {None}, tokens : SUBSET Tokens]

TypeOK ==
  /\ account \in [Users -> {"none", "active", "inactive"}]
  /\ access \subseteq Users
  /\ owner \in [Tokens -> Users \cup {None}]
  /\ family \in [Tokens -> Tokens \cup {None}]
  /\ \A t \in Tokens : owner[t] = None <=> family[t] = None
  /\ parent \in [Tokens -> Tokens \cup {None}]
  /\ given \subseteq {t \in Tokens : owner[t] # None}
  /\ live \subseteq {t \in Tokens : owner[t] # None}
  /\ index \in [Users -> SUBSET Tokens]
  /\ memory \in [Workers -> SUBSET Tokens]
  /\ req \in [Slots -> InFlight \cup {Idle}]
  /\ missed \subseteq Tokens
  /\ faults \in 0 .. MaxFaults
  /\ edits \in 0 .. MaxEdits

Init ==
  /\ account \in [Users -> {"none", "active"}]
  /\ access = {}
  /\ owner = [t \in Tokens |-> None]
  /\ family = owner
  /\ parent = owner
  /\ given = {}
  /\ live = {}
  /\ index = [u \in Users |-> {}]
  /\ memory = [w \in Workers |-> {}]
  /\ missed = {}
  /\ req = [r \in Slots |-> Idle]
  /\ faults = 0
  /\ edits = 0

(* ------------------------------ accounts ------------------------------ *)

Edit(u, from, to) ==
  /\ account[u] = from
  /\ edits < MaxEdits
  /\ account' = [account EXCEPT ![u] = to]
  /\ edits' = edits + 1
  /\ UNCHANGED <<access, facts, given, store, missed, req, faults>>

\* POST /auth/register: of two requests for one name the UNIQUE column refuses the second
Register(u) == Edit(u, "none", "active")

\* PATCH /users/{id} with is_active: nothing else is told
SetActive(u) == Edit(u, "active", "inactive") \/ Edit(u, "inactive", "active")

\* get_current_user: the row is looked up anew, what the access token says is not enough
CurrentUser(u) == u \in access /\ account[u] = "active"

\* access_token_expire_minutes
AccessExpires(u) ==
  /\ u \in access
  /\ access' = access \ {u}
  /\ UNCHANGED <<accounts, facts, given, store, missed, req, faults>>

(* ---------------------------- token store ----------------------------- *)

Carry(r, q) == req' = [req EXCEPT ![r] = q]

Goto(r, pc) == Carry(r, [req[r] EXCEPT !.pc = pc])

\* Mutant: data.get("family_id", "")
NoFamily(t, used) == IF used = None THEN t ELSE None

\* uuid4 of the login, handed on from token to token
FamilyOf(t, used) == IF used = None THEN t ELSE family[used]

\* generate_refresh_token, for a login (used = None) or in exchange
NewToken(r, q, t, used) ==
  /\ owner[t] = None
  /\ owner' = [owner EXCEPT ![t] = q.user]
  /\ family' = [family EXCEPT ![t] = FamilyOf(t, used)]
  /\ parent' = [parent EXCEPT ![t] = used]
  /\ Carry(r, [q EXCEPT !.pc = "hset", !.tokens = {t}])

Hset(r) ==
  /\ req[r].pc = "hset"
  /\ live' = live \cup req[r].tokens
  /\ Goto(r, "sadd")
  /\ UNCHANGED <<accounts, access, facts, given, index, memory, missed, faults>>

\* Mutant: the token is not listed among those of its user
Unlisted(q) == index

Listed(q) == [index EXCEPT ![q.user] = @ \cup q.tokens]

Sadd(r) ==
  /\ req[r].pc = "sadd"
  /\ index' = Listed(req[r])
  /\ Goto(r, "stored")
  /\ UNCHANGED <<accounts, access, facts, given, live, memory, missed, faults>>

\* One of the four commands failed: what Redis was told of already stays there
StoreInMemory(r) ==
  LET q == req[r] IN
  /\ q.pc \in {"hset", "sadd", "stored"}
  /\ memory' = [memory EXCEPT ![q.worker] = @ \cup q.tokens]
  /\ missed' = missed \cup {t \in q.tokens : q.pc = "sadd"}
  /\ Goto(r, "stored")
  /\ UNCHANGED <<accounts, access, facts, given, live, index>>

\* return Token(...)
Answer(r) ==
  LET q == req[r] IN
  /\ q.pc = "stored"
  /\ given' = given \cup q.tokens
  /\ access' = access \cup {q.user}
  /\ Carry(r, Idle)
  /\ UNCHANGED <<accounts, facts, store, missed, faults>>

\* Past validate_refresh_token: a refresh goes on with the account, a logout is done
Validated(r, q) ==
  IF q.op = "refresh" THEN Carry(r, [q EXCEPT !.pc = "user"]) ELSE Carry(r, Idle)

\* A logout needs an access token, whose user need not be that of the token presented
MayPresent(op) == op = "logout" => \E u \in Users : CurrentUser(u)

\* HGETALL of a token somebody was given; of one with no hash nothing comes
Present(r, op, w, t) ==
  /\ req[r] = Idle
  /\ MayPresent(op)
  /\ t \in given \cap live
  /\ Carry(r, [pc |-> "delete", op |-> op, worker |-> w, user |-> owner[t],
               token |-> t, tokens |-> {}])
  /\ UNCHANGED <<accounts, access, facts, given, store, missed, faults>>

\* HGETALL failed: what the memory of the worker holds is taken
PresentInMemory(r, op, w, t) ==
  /\ req[r] = Idle
  /\ MayPresent(op)
  /\ t \in given \cap memory[w]
  /\ memory' = [memory EXCEPT ![w] = @ \ {t}]
  /\ Validated(r, [pc |-> "delete", op |-> op, worker |-> w, user |-> owner[t],
                   token |-> t, tokens |-> {}])
  /\ UNCHANGED <<accounts, access, facts, given, live, index, missed>>

\* Mutant: the token stays until it expires
Kept(t) == live

\* DELETE of the hash: whether there still was one is not asked
Deleted(t) == live \ {t}

Delete(r) ==
  /\ req[r].pc = "delete"
  /\ live' = Deleted(req[r].token)
  /\ Goto(r, "srem")
  /\ UNCHANGED <<accounts, access, facts, given, index, memory, missed, faults>>

Srem(r) ==
  LET q == req[r] IN
  /\ q.pc = "srem"
  /\ index' = [index EXCEPT ![q.user] = @ \ {q.token}]
  /\ Validated(r, q)
  /\ UNCHANGED <<accounts, access, facts, given, live, memory, missed, faults>>

\* DELETE or SREM failed: the token counts only if the memory of the worker has it too
ConsumeInMemory(r) ==
  LET q == req[r] IN
  /\ q.pc \in {"delete", "srem"}
  /\ memory' = [memory EXCEPT ![q.worker] = @ \ {q.token}]
  /\ IF q.token \in memory[q.worker] THEN Validated(r, q) ELSE Carry(r, Idle)
  /\ UNCHANGED <<accounts, access, facts, given, live, index, missed>>

\* The week is over
Expire(t) ==
  /\ t \in given \cap (live \cup UNION {memory[w] : w \in Workers})
  /\ live' = live \ {t}
  /\ memory' = [w \in Workers |-> memory[w] \ {t}]
  /\ UNCHANGED <<accounts, access, facts, given, index, missed, req, faults>>

(* ------------------------------ requests ------------------------------ *)

\* POST /auth/login with the password; LoginLimits has what comes before
Login(r, w, u, t) ==
  /\ req[r] = Idle
  /\ account[u] = "active"
  /\ NewToken(r, [pc |-> "hset", op |-> "login", worker |-> w, user |-> u,
                  token |-> None, tokens |-> {}], t, None)
  /\ UNCHANGED <<accounts, access, given, store, missed, faults>>

\* POST /auth/refresh, past the token: the account as it is now
Exchange(r, t) ==
  /\ req[r].pc = "user"
  /\ account[req[r].user] = "active"
  /\ NewToken(r, req[r], t, req[r].token)
  /\ UNCHANGED <<accounts, access, given, store, missed, faults>>

RefuseInactive(r) ==
  /\ req[r].pc = "user"
  /\ account[req[r].user] = "inactive"
  /\ Goto(r, "family")
  /\ UNCHANGED <<accounts, access, facts, given, store, missed, faults>>

\* invalidate_family: those listed that have a hash and are of the family.  The hashes are read
\* one after the other; a listed token can only lose its own, so what a later reading
\* leaves out is not usable any more.
ReadFamily(r) ==
  LET q == req[r] IN
  /\ q.pc = "family"
  /\ Carry(r, [q EXCEPT !.pc = "drop",
                        !.tokens = {t \in index[q.user] \cap live : family[t] = family[q.token]}])
  /\ UNCHANGED <<accounts, access, facts, given, store, missed, faults>>

\* The pipeline is executed at once
DropFamily(r) ==
  LET q == req[r] IN
  /\ q.pc = "drop"
  /\ live' = live \ q.tokens
  /\ index' = [index EXCEPT ![q.user] = @ \ q.tokens]
  /\ Carry(r, Idle)
  /\ UNCHANGED <<accounts, access, facts, given, memory, missed, faults>>

\* POST /auth/logout/all: SMEMBERS
LogoutAll(r, w, u) ==
  /\ req[r] = Idle
  /\ CurrentUser(u)
  /\ Carry(r, [pc |-> "revoke", op |-> "logout_all", worker |-> w, user |-> u,
               token |-> None, tokens |-> index[u]])
  /\ UNCHANGED <<accounts, access, facts, given, store, missed, faults>>

\* The pipeline, if any was listed: the hashes of those, and the whole list
Revoke(r) ==
  LET q == req[r] IN
  /\ q.pc = "revoke"
  /\ live' = live \ q.tokens
  /\ index' = IF q.tokens = {} THEN index ELSE [index EXCEPT ![q.user] = {}]
  /\ missed' = missed \cup (IF q.tokens = {} THEN {} ELSE index[q.user] \ q.tokens)
  /\ Carry(r, Idle)
  /\ UNCHANGED <<accounts, access, facts, given, memory, faults>>

\* Redis failed in invalidate_family or revoke_all_user_tokens: the memory of the worker
ForgetInMemory(r) ==
  LET q == req[r] IN
  /\ q.pc \in {"family", "drop", "revoke"}
  /\ memory' = [memory EXCEPT ![q.worker] =
       {t \in @ : owner[t] # q.user \/ (q.op = "refresh" /\ family[t] # family[q.token])}]
  /\ Carry(r, Idle)
  /\ UNCHANGED <<accounts, access, facts, given, live, index, missed>>

(* --------------------------- specification ---------------------------- *)

\* A command of Redis that fails, and the fallback
Fault(r) ==
  /\ faults < MaxFaults
  /\ faults' = faults + 1
  /\ \/ StoreInMemory(r) \/ ConsumeInMemory(r) \/ ForgetInMemory(r)
     \/ \E op \in {"refresh", "logout"}, w \in Workers, t \in Tokens : PresentInMemory(r, op, w, t)

Next ==
  \/ \E u \in Users : Register(u) \/ SetActive(u) \/ AccessExpires(u)
  \/ \E t \in Tokens : Expire(t)
  \/ \E r \in Slots :
       \/ \E w \in Workers, u \in Users : LogoutAll(r, w, u) \/ \E t \in Tokens : Login(r, w, u, t)
       \/ \E op \in {"refresh", "logout"}, w \in Workers, t \in Tokens : Present(r, op, w, t)
       \/ Delete(r) \/ Srem(r) \/ RefuseInactive(r) \/ \E t \in Tokens : Exchange(r, t)
       \/ Hset(r) \/ Sadd(r) \/ Answer(r)
       \/ ReadFamily(r) \/ DropFamily(r) \/ Revoke(r)
       \/ Fault(r)

Spec == Init /\ [][Next]_vars

(* ----------------------------- properties ----------------------------- *)

Usable(t) == t \in live \/ \E w \in Workers : t \in memory[w]

\* The tokens clients got for t
Exchanged(t) == {x \in given : parent[x] = t}

\* A token that was exchanged, its successor known to the client, is nowhere any more, except
\* that each failure of Redis may have left one token in a second place (a store that failed
\* halfway leaves the token in Redis and in the memory of the worker)
SpentIsGone == Cardinality({t \in Tokens : Exchanged(t) # {} /\ Usable(t)}) <= faults

\* Every token a client can use from Redis is listed among those of its user, so that
\* logout/all and the invalidation of a family find it, except those a failed SADD or an
\* overlapping logout/all left out: no order of store, refresh and logout loses another one
ListedOrMissed ==
  \A t \in given \cap live : t \in index[owner[t]] \/ t \in missed

\* token_store.py: "Revoke all refresh tokens for a user (forced logout)": they can be
\* found, whatever logout/all did before
Revocable == \A t \in given \cap live : t \in index[owner[t]]

=============================================================================
