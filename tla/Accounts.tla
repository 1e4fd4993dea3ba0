------------------------------ MODULE Accounts ------------------------------
(***************************************************************************)
(* Users, tokens, API keys and stored broker credentials.  No operation     *)
(* suspends between its look-ups and its writes.  Accounts are never         *)
(* deactivated and roles never change: no operation does either.             *)
(***************************************************************************)
EXTENDS Naturals

CONSTANTS
  UserIds,    \* identifiers drawn for users
  Boxes,      \* e-mail addresses in lower case
  Spellings,  \* ways of writing one address
  Roles,      \* a set of roles
  Managers,   \* the roles with BROKER_MANAGE
  Keys,       \* API keys that can be made
  Brokers,    \* broker ids
  AccessLife, RefreshLife, \* lifetimes of the two kinds of token
  LastDay     \* bound: the end of time

VARIABLES
  users,   \* _users_by_id: user id -> [box, spelling, role], or NoUser
  logins,  \* _users_by_email: address, as it is looked up -> user id, or NoId
  tokens,  \* tokens issued: [user, kind, expires]
  keys,    \* key -> [owner, active, expires, used], owner NoId when not made
  vault,   \* <<user, broker>> pairs with stored credentials
  day      \* the clock

accountVars == <<users, logins, tokens, keys, vault, day>>

NoOwner == "none"

ASSUME AccountsAssumption ==
  /\ NoOwner \notin UserIds /\ Managers \subseteq Roles
  /\ AccessLife \in Nat /\ RefreshLife \in Nat /\ LastDay \in Nat

NoUser  == [box |-> "none", spelling |-> "none", role |-> "none"]
NoExpiry == LastDay + 1

Mails == Boxes \X Spellings

AccountsInit ==
  /\ users = [u \in UserIds |-> NoUser]
  /\ logins = [m \in Mails |-> NoOwner]
  /\ tokens = {} /\ vault = {} /\ day = 0
  /\ keys = [k \in Keys |-> [owner |-> NoOwner, active |-> FALSE, expires |-> 0, used |-> 0]]
-----------------------------------------------------------------------------
(* Users and tokens.                                                        *)

\* Mutant: an address is looked up as it is written.
LookedUpAsWritten(mail) == mail

\* email.lower(): one spelling of the address stands for all.
LookedUp(mail) == <<mail[1], CHOOSE s \in Spellings : TRUE>>

\* A known address is refused.
RegisterUser(u, mail, role) ==
  /\ users[u] = NoUser
  /\ logins[LookedUp(mail)] = NoOwner
  /\ users' = [users EXCEPT ![u] = [box |-> mail[1], spelling |-> mail[2], role |-> role]]
  /\ logins' = [logins EXCEPT ![LookedUp(mail)] = u]
  /\ UNCHANGED <<tokens, keys, vault, day>>

Token(u, kind, life) == [user |-> u, kind |-> kind, expires |-> day + life]

\* With the right password.
Login(mail) ==
  LET u == logins[LookedUp(mail)]
  IN /\ u # NoOwner
     /\ tokens' = tokens \cup {Token(u, "access", AccessLife), Token(u, "refresh", RefreshLife)}
     /\ UNCHANGED <<users, logins, keys, vault, day>>

Unexpired(t) == t \in tokens /\ day <= t.expires

RefreshAccess(t) ==
  /\ Unexpired(t) /\ t.kind = "refresh" /\ users[t.user] # NoUser
  /\ tokens' = tokens \cup {Token(t.user, "access", AccessLife)}
  /\ UNCHANGED <<users, logins, keys, vault, day>>

DayPasses ==
  /\ day < LastDay
  /\ day' = day + 1
  /\ UNCHANGED <<users, logins, tokens, keys, vault>>
-----------------------------------------------------------------------------
(* Requests of a user, by a token or by a key.                              *)

ValidKey(k) == keys[k].active /\ day <= keys[k].expires

\* get_current_user: whom the credential stands for.
Authenticates(via, u) ==
  /\ users[u] # NoUser
  /\ \/ via \in tokens /\ Unexpired(via) /\ via.user = u
     \/ via \in Keys /\ ValidKey(via) /\ keys[via].owner = u

\* require_permissions: the permission is one of the user's role.
MayManage(via, u) == Authenticates(via, u) /\ users[u].role \in Managers

\* A key that was presented is stamped.
Stamped(via) ==
  IF via \in Keys THEN [keys EXCEPT ![via].used = day] ELSE keys

CreateKey(via, u, k, expires) ==
  /\ Authenticates(via, u) /\ keys[k].owner = NoOwner
  /\ keys' = [Stamped(via) EXCEPT
                ![k] = [owner |-> u, active |-> TRUE, expires |-> expires, used |-> 0]]
  /\ UNCHANGED <<users, logins, tokens, vault, day>>

\* Only active keys of the user's own are found.
RevokeKey(via, u, k) ==
  /\ Authenticates(via, u)
  /\ keys[k].owner = u /\ keys[k].active
  /\ keys' = [Stamped(via) EXCEPT ![k].active = FALSE]
  /\ UNCHANGED <<users, logins, tokens, vault, day>>

\* Credentials of a broker replace those stored before.
StoreCredentials(via, u, b) ==
  /\ MayManage(via, u)
  /\ vault' = vault \cup {<<u, b>>}
  /\ keys' = Stamped(via)
  /\ UNCHANGED <<users, logins, tokens, day>>

DeleteCredentials(via, u, b) ==
  /\ MayManage(via, u)
  /\ vault' = vault \ {<<u, b>>}
  /\ keys' = Stamped(via)
  /\ UNCHANGED <<users, logins, tokens, day>>

AccountsNext ==
  \/ \E u \in UserIds, mail \in Mails, role \in Roles : RegisterUser(u, mail, role)
  \/ \E mail \in Mails : Login(mail)
  \/ \E t \in tokens : RefreshAccess(t)
  \/ DayPasses
  \/ \E via \in tokens \cup Keys, u \in UserIds :
       \/ \E k \in Keys :
            (\E expires \in {day, NoExpiry} : CreateKey(via, u, k, expires)) \/ RevokeKey(via, u, k)
       \/ \E b \in Brokers : StoreCredentials(via, u, b) \/ DeleteCredentials(via, u, b)

AccountsSpec == AccountsInit /\ [][AccountsNext]_accountVars
-----------------------------------------------------------------------------
(* Properties.                                                              *)

(* Every variable keeps its type.                                           *)
AccountsTypeOK ==
  /\ users \in [UserIds -> [box : Boxes, spelling : Spellings, role : Roles] \cup {NoUser}]
  /\ logins \in [Mails -> UserIds \cup {NoOwner}]
  /\ \A t \in tokens : t \in [user : UserIds, kind : {"access", "refresh"}, expires : Nat]
  /\ keys \in [Keys -> [owner : UserIds \cup {NoOwner}, active : BOOLEAN,
                        expires : Nat, used : Nat]]
  /\ vault \subseteq UserIds \X Brokers /\ day \in 0..LastDay

(* No registration takes an account's login away or over: every user is      *)
(* found by the address it registered with, in any spelling.                 *)
AccountsKeepTheirLogins ==
  \A u \in UserIds : users[u] # NoUser =>
    \A s \in Spellings : logins[LookedUp(<<users[u].box, s>>)] = u
=============================================================================
