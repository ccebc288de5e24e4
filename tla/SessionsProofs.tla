--------------------------- MODULE SessionsProofs ---------------------------
(***************************************************************************)
(* Proofs about Sessions, for any names, groups, keys, outs and clients.   *)
(* The invariant says of each session by itself what the properties say of *)
(* all: the steps of a session touch one, and those of the team either set *)
(* a push or leave something unsaved.                                      *)
(***************************************************************************)
EXTENDS Sessions, TLAPS

USE DEF User, Group, Team, Config, Client, View

Standing(t, c) ==
  c # None /\ c.open /\ c.principal # None => Valid(t, c.principal) \/ unsaved

Informed(t, os, c) ==
  c # None /\ c.open /\ c.principal # None /\ c.state
    => c.last = StateFor(t, os, c.principal)

Sound(c) == Standing(team, c) /\ (push \/ unsaved \/ Informed(team, outs, c))

IInv ==
  /\ TypeOK
  /\ TeamHasAdministrator
  /\ \A c \in Clients : Sound(clients[c])

-----------------------------------------------------------------------------
(* The operators *)

LEMMA PrincipalFields ==
  ASSUME NEW p \in Principal
  PROVE  /\ p.user \in Names \cup {None}
         /\ p.group \in Groups \cup {None}
         /\ p.key \in Keys \cup {None}
         /\ p # Everything => p.user # None \/ p.group # None
         /\ p.user # None => p.group = None
         /\ p.group # None => p.key \in Keys
BY NoneIsNothing DEF Principal, Everything, AsUser, WithKey

LEMMA GroupsType ==
  ASSUME TypeOK, NEW t \in Team, NEW p \in Principal
  PROVE  GroupsOf(t, p) \in SUBSET Groups
<1>1. CASE p = Everything
  BY <1>1 DEF GroupsOf
<1>2. CASE p # Everything /\ p.user = None
  BY <1>2, PrincipalFields DEF GroupsOf
<1>3. CASE p # Everything /\ p.user # None
  <2>1. p.user \in Names
    BY <1>3, PrincipalFields
  <2>2. t.users[p.user] # None => t.users[p.user].groups \in SUBSET Groups
    BY <2>1
  <2> QED  BY <1>3, <2>2 DEF GroupsOf, Exists
<1> QED  BY <1>1, <1>2, <1>3

LEMMA OutsType ==
  ASSUME TypeOK, NEW t \in Team, NEW p \in Principal
  PROVE  OutsOf(t, p) \in SUBSET Outs
<1>1. \A g \in Exists(t, GroupsOf(t, p)) : t.groups[g].outs \in SUBSET Outs
  BY GroupsType DEF Exists
<1> QED  BY <1>1 DEF OutsOf

LEMMA StateType ==
  ASSUME TypeOK, NEW t \in Team, NEW os \in [Outs -> Air \cup {None}], NEW p \in Principal
  PROVE  StateFor(t, os, p) \in View
<1>1. {<<o, os[o]>> : o \in {o \in OutsOf(t, p) : os[o] # None}} \in SUBSET (Outs \X Air)
  BY OutsType
<1> QED  BY <1>1, GroupsType DEF StateFor

LEMMA ToldType ==
  ASSUME TypeOK, NEW c \in Client \cup {None}
  PROVE  Told(team, outs, c) \in Client \cup {None}
<1>1. CASE c # None /\ c.principal # None /\ c.state
  <2>1. StateFor(team, outs, c.principal) \in View
    BY <1>1, StateType DEF TypeOK
  <2> QED  BY <1>1, <2>1 DEF Told
<1> QED  BY <1>1 DEF Told

\* A session that is told the state is informed.
LEMMA ToldIsInformed ==
  ASSUME TypeOK, NEW c \in Client \cup {None}, Standing(team, c)
  PROVE  Standing(team, Told(team, outs, c)) /\ Informed(team, outs, Told(team, outs, c))
<1>1. CASE c # None /\ c.principal # None /\ c.state
  <2>1. c \in Client
    BY <1>1
  <2>2. Told(team, outs, c) = [c EXCEPT !.last = StateFor(team, outs, c.principal)]
    BY <1>1 DEF Told
  <2> QED  BY <1>1, <2>1, <2>2, NoneIsNothing DEF Standing, Informed
<1>2. CASE ~(c # None /\ c.principal # None /\ c.state)
  BY <1>2 DEF Told, Standing, Informed
<1> QED  BY <1>1, <1>2

LEMMA SignInIsValid ==
  ASSUME TypeOK, NEW p \in SignIn
  PROVE  p \in Principal /\ Valid(team, p)
<1>1. p \in Principal
  BY DEF SignIn
<1>2. CASE p = Everything
  BY <1>1, <1>2 DEF Valid
<1>3. CASE p.group # None /\ Valid(team, p)
  BY <1>1, <1>3
<1>4. CASE p.user # None /\ config.login /\ (p.user \in Builtin \/ team.users[p.user] # None)
  <2>1. p.user \in Names
    BY <1>1, <1>4, PrincipalFields
  <2>2. RoleOf(team, p.user) # None
    BY <1>4, <2>1, NoneIsNothing DEF RoleOf, TypeOK
  <2> QED  BY <1>1, <1>4, <2>2 DEF Valid
<1> QED  BY <1>2, <1>3, <1>4 DEF SignIn

\* Whoever is let in is in by right, and told the state.
LEMMA AdmitIsSound ==
  ASSUME TypeOK, NEW c \in Client, NEW p \in Principal, Valid(team, p)
  PROVE  Admit(c, p) \in Client \cup {None} /\ Sound(Admit(c, p))
<1> DEFINE in == [c EXCEPT !.principal = p, !.loginTimer = FALSE]
<1>1. in \in Client /\ in.principal = p
  OBVIOUS
<1>2. Standing(team, in)
  BY <1>1 DEF Standing
<1> HIDE DEF in
<1>3. Told(team, outs, in) \in Client \cup {None} /\ Sound(Told(team, outs, in))
  BY <1>1, <1>2, ToldType, ToldIsInformed DEF Sound
<1> QED  BY <1>3 DEF Admit, in

LEMMA EverythingIsValid ==
  ASSUME NEW t
  PROVE  Everything \in Principal /\ Valid(t, Everything)
BY DEF Principal, Valid

-----------------------------------------------------------------------------
(* The steps of sessions *)

\* A step that only changes sessions and the push leaves them sound if it
\* informs them or has a push to come.
LEMMA SameTeam ==
  ASSUME IInv, Others, push' \in BOOLEAN, events' \in 0..MaxEvents,
         clients' \in [Clients -> Client \cup {None}],
         \A k \in Clients : /\ Standing(team, clients'[k])
                            /\ push' \/ unsaved \/ Informed(team, outs, clients'[k])
  PROVE  IInv'
<1>1. TypeOK'
  BY DEF IInv, TypeOK, Others
<1>2. TeamHasAdministrator'
  BY DEF IInv, TeamHasAdministrator, Others, Builtin, IsAdmin
<1>3. config' = config /\ team' = team /\ outs' = outs /\ unsaved' = unsaved
  BY DEF Others
<1>4. ASSUME NEW k \in Clients
      PROVE  Sound(clients[k])'
  <2> DEFINE s == clients'[k]
  <2>1. Standing(team, clients[k])'
    BY <1>3 DEF Standing, Valid, RoleOf, Builtin
  <2>2. RoleOf(team, clients[k].principal.user)' = RoleOf(team, s.principal.user)
    BY <1>3 DEF RoleOf, Builtin
  <2>3. GroupsOf(team, clients[k].principal)' = GroupsOf(team, s.principal)
    BY <1>3, <2>2 DEF GroupsOf
  <2>4. OutsOf(team, clients[k].principal)' = OutsOf(team, s.principal)
    BY <1>3, <2>2, <2>3 DEF OutsOf
  <2>5. StateFor(team, outs, clients[k].principal)' = StateFor(team, outs, s.principal)
    BY <1>3, <2>3, <2>4 DEF StateFor
  <2> QED  BY <1>3, <2>1, <2>5 DEF Sound, Informed
<1> QED  BY <1>1, <1>2, <1>4 DEF IInv

\* A step that replaces one session by one that is sound.
LEMMA BecomesSound ==
  ASSUME IInv, NEW c \in Clients, NEW client \in Client \cup {None}, Sound(client),
         clients' = [clients EXCEPT ![c] = client],
         Others, UNCHANGED push, events' \in 0..MaxEvents
  PROVE  IInv'
<1>1. \A k \in Clients : Sound(clients'[k])
  BY DEF IInv, TypeOK
<1>2. clients' \in [Clients -> Client \cup {None}] /\ push' \in BOOLEAN
  BY DEF IInv, TypeOK
<1> QED  BY <1>1, <1>2, SameTeam DEF Sound

LEMMA ClientOf ==
  ASSUME IInv, NEW c \in Clients, clients[c] # None
  PROVE  clients[c] \in Client /\ Sound(clients[c])
BY DEF IInv, TypeOK

LEMMA RejectIsSound ==
  ASSUME NEW c \in Client
  PROVE  Reject(c) \in Client \cup {None} /\ Sound(Reject(c))
BY DEF Reject, Sound, Standing, Informed

LEMMA NoneIsSound == Sound(None)
BY DEF Sound, Standing, Informed

LEMMA NewClientType == NewClient \in Client /\ NewClient.principal = None
BY DEF NewClient

LEMMA ConnectInvariant ==
  ASSUME IInv, NEW c \in Clients, Connect(c)
  PROVE  IInv'
<1>1. TypeOK
  BY DEF IInv
<1>2. PICK new \in IF Open THEN {Admit(NewClient, Everything)}
                ELSE {[NewClient EXCEPT !.loginTimer = TRUE], Reject(NewClient)}
                     \cup {Admit(NewClient, p) : p \in {p \in SignIn : p.user = None}} :
        clients' = [clients EXCEPT ![c] = new]
  BY DEF Connect
<1>3. new \in Client \cup {None} /\ Sound(new)
  <2>1. CASE new = Admit(NewClient, Everything)
    BY <1>1, <2>1, NewClientType, EverythingIsValid, AdmitIsSound
  <2>2. CASE new = [NewClient EXCEPT !.loginTimer = TRUE]
    BY <2>2, NewClientType DEF Sound, Standing, Informed, NewClient
  <2>3. CASE new = Reject(NewClient)
    BY <2>3, NewClientType, RejectIsSound
  <2>4. ASSUME NEW p \in SignIn, new = Admit(NewClient, p)
        PROVE  new \in Client \cup {None} /\ Sound(new)
    BY <1>1, <2>4, NewClientType, SignInIsValid, AdmitIsSound
  <2> QED  BY <1>2, <2>1, <2>2, <2>3, <2>4
<1>4. events' \in 0..MaxEvents
  BY SessionsAssumption DEF Connect, Happens, IInv, TypeOK
<1>5. Others /\ UNCHANGED push
  BY DEF Connect
<1> QED  BY <1>2, <1>3, <1>4, <1>5, BecomesSound

\* What a step that is Becomes has to show.
LEMMA BecomesInvariant ==
  ASSUME IInv, NEW c \in Clients, NEW client \in Client \cup {None}, Sound(client),
         Becomes(c, client)
  PROVE  IInv'
BY BecomesSound DEF Becomes, IInv, TypeOK

LEMMA SessionInvariant ==
  ASSUME IInv, NEW c \in Clients, SessionStep(c)
  PROVE  IInv'
<1>1. TypeOK
  BY DEF IInv
<1>2. CASE Connect(c)
  BY <1>2, ConnectInvariant
<1>3. CASE Login(c)
  <2>1. clients[c] \in Client
    BY <1>3, ClientOf DEF Login, Sends
  <2>2. CASE Open
    <3>1. Becomes(c, Admit(clients[c], Everything))
      BY <1>3, <2>2 DEF Login
    <3> QED  BY <1>1, <2>1, <3>1, EverythingIsValid, AdmitIsSound, BecomesInvariant
  <2>3. CASE ~Open
    <3>1. PICK p \in SignIn : Becomes(c, Admit(clients[c], p))
      BY <1>3, <2>3 DEF Login
    <3> QED  BY <1>1, <2>1, <3>1, SignInIsValid, AdmitIsSound, BecomesInvariant
  <2> QED  BY <2>2, <2>3
<1>4. CASE Refused(c)
  BY <1>4, ClientOf, RejectIsSound, BecomesInvariant DEF Refused, Sends
<1>5. CASE Subscribe(c)
  <2> DEFINE asks == [clients[c] EXCEPT !.state = TRUE]
  <2>1. clients[c] \in Client /\ Sound(clients[c])
    BY <1>5, ClientOf DEF Subscribe, Sends
  <2>2. asks \in Client /\ Standing(team, asks)
    BY <2>1, NoneIsNothing DEF Sound, Standing
  <2>3. Becomes(c, Told(team, outs, asks))
    BY <1>5 DEF Subscribe
  <2> HIDE DEF asks
  <2> QED  BY <1>1, <2>2, <2>3, ToldType, ToldIsInformed, BecomesInvariant DEF Sound
<1>6. CASE Unsubscribe(c)
  <2> DEFINE quiet == [clients[c] EXCEPT !.state = FALSE, !.last = None]
  <2>1. clients[c] \in Client /\ Sound(clients[c])
    BY <1>6, ClientOf DEF Unsubscribe, Sends
  <2>2. quiet \in Client /\ Sound(quiet)
    BY <2>1, NoneIsNothing DEF Sound, Standing, Informed
  <2>3. Becomes(c, quiet)
    BY <1>6 DEF Unsubscribe
  <2> HIDE DEF quiet
  <2> QED  BY <2>2, <2>3, BecomesInvariant
<1>7. CASE LoginTimeout(c)
  <2> DEFINE late == [Reject(clients[c]) EXCEPT !.loginTimer = FALSE]
  <2>1. clients[c] \in Client
    BY <1>7, ClientOf DEF LoginTimeout
  <2>2. late \in Client /\ Sound(late)
    BY <2>1, NoneIsNothing DEF Reject, Sound, Standing, Informed
  <2>3. Becomes(c, late)
    BY <1>7 DEF LoginTimeout
  <2> HIDE DEF late
  <2> QED  BY <2>2, <2>3, BecomesInvariant
<1>8. CASE Leave(c) \/ Closed(c)
  BY <1>8, NoneIsSound, BecomesInvariant DEF Leave, Closed
<1>9. CASE Vanish(c)
  <2> DEFINE gone == [clients[c] EXCEPT !.there = FALSE]
  <2>1. clients[c] \in Client /\ Sound(clients[c])
    BY <1>9, ClientOf DEF Vanish, Sends
  <2>2. gone \in Client /\ Sound(gone)
    BY <2>1, NoneIsNothing DEF Sound, Standing, Informed
  <2>3. Becomes(c, gone)
    BY <1>9 DEF Vanish
  <2> HIDE DEF gone
  <2> QED  BY <2>2, <2>3, BecomesInvariant
<1>10. CASE Pong(c)
  <2> DEFINE here == [clients[c] EXCEPT !.alive = TRUE]
  <2>1. clients[c] \in Client /\ Sound(clients[c])
    BY <1>10, ClientOf DEF Pong, Sends
  <2>2. here \in Client /\ Sound(here)
    BY <2>1, NoneIsNothing DEF Sound, Standing, Informed
  <2>3. Becomes(c, here)
    BY <1>10 DEF Pong
  <2> HIDE DEF here
  <2> QED  BY <2>2, <2>3, BecomesInvariant
<1> QED  BY <1>2, <1>3, <1>4, <1>5, <1>6, <1>7, <1>8, <1>9, <1>10 DEF SessionStep

-----------------------------------------------------------------------------
(* The other steps *)

LEMMA HeartbeatInvariant ==
  ASSUME IInv, Heartbeat
  PROVE  IInv'
<1>1. ASSUME NEW k \in Clients
      PROVE  clients'[k] \in Client \cup {None} /\ Sound(clients'[k])
  <2>1. CASE clients[k] = None \/ ~clients[k].alive
    BY <2>1, NoneIsSound DEF Heartbeat
  <2>2. CASE clients[k] # None /\ clients[k].alive
    <3>1. clients[k] \in Client /\ Sound(clients[k])
      BY <2>2, ClientOf
    <3>2. clients'[k] = [clients[k] EXCEPT !.alive = FALSE]
      BY <2>2 DEF Heartbeat
    <3> QED  BY <3>1, <3>2, NoneIsNothing DEF Sound, Standing, Informed
  <2> QED  BY <2>1, <2>2
<1>2. clients' \in [Clients -> Client \cup {None}]
  <2>1. clients' = [k \in Clients |-> clients'[k]]
    BY DEF Heartbeat
  <2> QED  BY <1>1, <2>1
<1>3. Others /\ push' = push /\ push' \in BOOLEAN /\ events' \in 0..MaxEvents
  BY DEF Heartbeat, IInv, TypeOK
<1> QED  BY <1>1, <1>2, <1>3, SameTeam DEF Sound

LEMMA PushInvariant ==
  ASSUME IInv, PushState
  PROVE  IInv'
<1>1. ASSUME NEW k \in Clients
      PROVE  /\ clients'[k] \in Client \cup {None}
             /\ Standing(team, clients'[k]) /\ Informed(team, outs, clients'[k])
  <2>1. clients'[k] = Told(team, outs, clients[k])
    BY DEF PushState
  <2>2. TypeOK /\ clients[k] \in Client \cup {None} /\ Standing(team, clients[k])
    BY DEF IInv, TypeOK, Sound
  <2> QED  BY <2>1, <2>2, ToldType, ToldIsInformed
<1>2. clients' \in [Clients -> Client \cup {None}]
  <2>1. clients' = [k \in Clients |-> clients'[k]]
    BY DEF PushState
  <2> QED  BY <1>1, <2>1
<1>3. Others /\ push' \in BOOLEAN /\ events' \in 0..MaxEvents
  BY DEF PushState, IInv, TypeOK
<1> QED  BY <1>1, <1>2, <1>3, SameTeam

LEMMA OutInvariant ==
  ASSUME IInv, NEW o \in Outs, NEW on \in Air \cup {None}, OutChanges(o, on)
  PROVE  IInv'
<1>1. TypeOK'
  BY SessionsAssumption DEF IInv, TypeOK, OutChanges, Happens
<1>2. TeamHasAdministrator'
  BY DEF IInv, TeamHasAdministrator, OutChanges, Builtin, IsAdmin
<1>3. ASSUME NEW k \in Clients
      PROVE  Sound(clients[k])'
  <2>1. Standing(team, clients[k])
    BY DEF IInv, Sound
  <2> QED  BY <2>1 DEF OutChanges, Sound, Standing, Valid, RoleOf, Builtin
<1> QED  BY <1>1, <1>2, <1>3 DEF IInv

\* A save, written or not, of a team that has its administrator.
LEMMA SaveInvariant ==
  ASSUME IInv, NEW t \in Team, Save(t), Happens,
         config.login => Builtin # {} \/ \E n \in Names : IsAdmin(t, n)
  PROVE  IInv'
<1>1. events' \in 0..MaxEvents
  BY SessionsAssumption DEF Happens, IInv, TypeOK
<1>2. TeamHasAdministrator'
  BY DEF Save, TeamHasAdministrator, Builtin, IsAdmin
<1>3. CASE unsaved' = TRUE /\ UNCHANGED <<file, push, clients>>
  <2>1. TypeOK'
    BY <1>1, <1>3 DEF Save, IInv, TypeOK
  <2>2. \A k \in Clients : Sound(clients[k])'
    BY <1>3 DEF Sound, Standing
  <2> QED  BY <1>2, <2>1, <2>2 DEF IInv
<1>4. CASE /\ file' = t /\ unsaved' = FALSE /\ push' = TRUE
           /\ clients' = [c \in Clients |-> Revoked(t, clients[c])]
  <2>1. ASSUME NEW k \in Clients
        PROVE  clients'[k] \in Client \cup {None} /\ Sound(clients[k])'
    <3>1. clients'[k] = Revoked(t, clients[k]) /\ clients[k] \in Client \cup {None}
      BY <1>4 DEF IInv, TypeOK
    <3>2. CASE clients[k] # None /\ clients[k].principal # None /\ ~Valid(t, clients[k].principal)
      <4>1. clients'[k] = [clients[k] EXCEPT !.open = FALSE]
        BY <3>1, <3>2 DEF Revoked, Reject
      <4>2. clients'[k] \in Client /\ ~clients'[k].open
        BY <3>1, <3>2, <4>1
      <4> QED  BY <1>4, <4>2 DEF Sound, Standing
    <3>3. CASE ~(clients[k] # None /\ clients[k].principal # None /\ ~Valid(t, clients[k].principal))
      <4>1. clients'[k] = clients[k]
        BY <3>1, <3>3 DEF Revoked
      <4>2. clients'[k] # None /\ clients'[k].principal # None => Valid(team, clients[k].principal)'
        BY <3>3, <4>1 DEF Save, Valid, RoleOf, Builtin
      <4> QED  BY <1>4, <3>1, <4>1, <4>2 DEF Sound, Standing
    <3> QED  BY <3>2, <3>3
  <2>2. clients' \in [Clients -> Client \cup {None}]
    <3>1. clients' = [k \in Clients |-> clients'[k]]
      BY <1>4
    <3> QED  BY <2>1, <3>1
  <2>3. TypeOK'
    BY <1>1, <1>4, <2>2 DEF Save, IInv, TypeOK
  <2> QED  BY <1>2, <2>1, <2>3 DEF IInv
<1> QED  BY <1>3, <1>4 DEF Save

-----------------------------------------------------------------------------
(* Changes of the team *)

LEMMA WithUserType ==
  ASSUME TypeOK, NEW n \in Names, NEW u \in User \cup {None}
  PROVE  /\ WithUser(n, u) \in Team
         /\ WithUser(n, u).users[n] = u
         /\ \A other \in Names \ {n} : WithUser(n, u).users[other] = team.users[other]
BY DEF TypeOK, WithUser

LEMMA WithGroupType ==
  ASSUME TypeOK, NEW g \in Groups, NEW group \in Group
  PROVE  WithGroup(g, group) \in Team /\ WithGroup(g, group).users = team.users
BY DEF TypeOK, WithGroup

\* A change that leaves the users as they are.
LEMMA SameUsers ==
  ASSUME IInv, NEW t \in Team, Save(t), Happens, t.users = team.users
  PROVE  IInv'
<1>1. config.login => Builtin # {} \/ \E n \in Names : IsAdmin(t, n)
  BY DEF IInv, TeamHasAdministrator, IsAdmin
<1> QED  BY <1>1, SaveInvariant

LEMMA GroupInvariant ==
  ASSUME IInv, NEW g \in Groups, GroupStep(g)
  PROVE  IInv'
<1>1. TypeOK
  BY DEF IInv
<1>2. CASE \E os \in SUBSET Outs : CreateGroup(g, os)
  <2>1. PICK os \in SUBSET Outs : CreateGroup(g, os)
    BY <1>2
  <2>2. [outs |-> {o \in os : outs[o] # None}, keys |-> {}] \in Group
    OBVIOUS
  <2> QED  BY <1>1, <2>1, <2>2, WithGroupType, SameUsers DEF CreateGroup
<1>3. CASE \E os \in SUBSET Outs : UpdateGroup(g, os)
  <2>1. PICK os \in SUBSET Outs : UpdateGroup(g, os)
    BY <1>3
  <2>2. [team.groups[g] EXCEPT !.outs = {o \in os : outs[o] # None}] \in Group
    BY <1>1, <2>1 DEF UpdateGroup, TypeOK
  <2> QED  BY <1>1, <2>1, <2>2, WithGroupType, SameUsers DEF UpdateGroup
<1>4. CASE DeleteGroup(g)
  <2> DEFINE left == [n \in Names |-> IF team.users[n] = None THEN None
                        ELSE [team.users[n] EXCEPT !.groups = @ \ {g}]]
             t == [team EXCEPT !.groups[g] = None, !.users = left]
  <2>1. \A n \in Names : /\ left[n] \in User \cup {None}
                         /\ IsAdmin(team, n) => left[n] # None /\ left[n].role = "admin"
    BY <1>1, NoneIsNothing DEF TypeOK, IsAdmin
  <2>2. left \in [Names -> User \cup {None}]
    BY <2>1
  <2>3. Save(t) /\ Happens
    BY <1>4 DEF DeleteGroup
  <2> HIDE DEF left
  <2>4. t \in Team /\ t.users = left
    BY <1>1, <2>2 DEF TypeOK
  <2>5. config.login => Builtin # {} \/ \E n \in Names : IsAdmin(t, n)
    BY <2>1, <2>4 DEF IInv, TeamHasAdministrator, IsAdmin
  <2> HIDE DEF t
  <2> QED  BY <2>3, <2>4, <2>5, SaveInvariant
<1>5. CASE \E k \in Keys : AddGroupKey(g, k)
  <2>1. PICK k \in Keys : AddGroupKey(g, k)
    BY <1>5
  <2>2. [team.groups[g] EXCEPT !.keys = @ \cup {k}] \in Group
    BY <1>1, <2>1 DEF AddGroupKey, TypeOK
  <2> QED  BY <1>1, <2>1, <2>2, WithGroupType, SameUsers DEF AddGroupKey
<1>6. CASE \E k \in Keys : RemoveGroupKey(g, k)
  <2>1. PICK k \in Keys : RemoveGroupKey(g, k)
    BY <1>6
  <2>2. [team.groups[g] EXCEPT !.keys = @ \ {k}] \in Group
    BY <1>1, <2>1 DEF RemoveGroupKey, TypeOK
  <2> QED  BY <1>1, <2>1, <2>2, WithGroupType, SameUsers DEF RemoveGroupKey
<1> QED  BY <1>2, <1>3, <1>4, <1>5, <1>6 DEF GroupStep

LEMMA KeyInvariant ==
  ASSUME IInv, NEW o \in Outs, OutKey(o) \/ RegenerateOutKey(o)
  PROVE  IInv'
<1> DEFINE t == [team EXCEPT !.outKeys = @ \cup {o}]
<1>1. t \in Team /\ t.users = team.users
  BY DEF IInv, TypeOK
<1>2. Save(t) /\ Happens
  BY DEF OutKey, RegenerateOutKey
<1> HIDE DEF t
<1> QED  BY <1>1, <1>2, SameUsers

\* A refusal that has changed the password only.
LEMMA RefusalInvariant ==
  ASSUME IInv, NEW n \in Names, NEW u \in User, team.users[n] \in User, u.role = team.users[n].role,
         Happens, team' = WithUser(n, u), unsaved' = (unsaved \/ u # team.users[n]),
         UNCHANGED <<config, file, outs, clients, push>>
  PROVE  IInv'
<1>1. TypeOK
  BY DEF IInv
<1>2. WithUser(n, u) \in Team
  BY <1>1, WithUserType
<1>3. TypeOK'
  BY <1>2, SessionsAssumption DEF IInv, TypeOK, Happens
<1>4. TeamHasAdministrator'
  <2>1. \A m \in Names : IsAdmin(team, m) => IsAdmin(WithUser(n, u), m)
    <3>1. ASSUME NEW m \in Names, IsAdmin(team, m)
          PROVE  IsAdmin(WithUser(n, u), m)
      <4>1. CASE m = n
        <5>1. WithUser(n, u).users[m] = u
          BY <1>1, <4>1, WithUserType
        <5>2. u # None /\ u.role = "admin"
          BY <3>1, <4>1, NoneIsNothing DEF IsAdmin
        <5> QED  BY <5>1, <5>2 DEF IsAdmin
      <4>2. CASE m # n
        BY <1>1, <3>1, <4>2, WithUserType DEF IsAdmin
      <4> QED  BY <4>1, <4>2
    <3> QED  BY <3>1
  <2> QED  BY <2>1 DEF IInv, TeamHasAdministrator, Builtin, IsAdmin
<1>5. CASE unsaved'
  BY <1>3, <1>4, <1>5 DEF IInv, Sound, Standing
<1>6. CASE ~unsaved'
  <2>1. team' = team /\ unsaved' = unsaved
    <3>1. u = team.users[n] /\ unsaved' = unsaved
      BY <1>1, <1>6 DEF TypeOK
    <3>2. [team.users EXCEPT ![n] = team.users[n]] = team.users
      BY <1>1 DEF TypeOK
    <3>3. [team EXCEPT !.users = team.users] = team
      BY <1>1 DEF TypeOK
    <3>4. WithUser(n, u) = [team EXCEPT !.users = [team.users EXCEPT ![n] = u]]
      BY DEF WithUser
    <3> QED  BY <3>1, <3>2, <3>3, <3>4
  <2>2. Others /\ push' = push /\ clients' = clients /\ events' \in 0..MaxEvents
    BY <1>3, <2>1 DEF Others, TypeOK
  <2> QED  BY <1>1, <2>2, SameTeam DEF IInv, TypeOK, Sound
<1> QED  BY <1>5, <1>6

LEMMA UserInvariant ==
  ASSUME IInv, NEW n \in Names, UserStep(n)
  PROVE  IInv'
<1>1. TypeOK
  BY DEF IInv
<1>2. CASE \E role \in {"admin", "member"}, gs \in SUBSET Groups : CreateUser(n, role, gs)
  <2>1. PICK role \in {"admin", "member"}, gs \in SUBSET Groups : CreateUser(n, role, gs)
    BY <1>2
  <2> DEFINE u == [role |-> role, groups |-> Exists(team, gs), default |-> FALSE]
             t == WithUser(n, u)
  <2>2. u \in User
    BY DEF Exists
  <2>3. Save(t) /\ Happens /\ team.users[n] = None
    BY <2>1 DEF CreateUser
  <2> HIDE DEF u
  <2>4. t \in Team /\ \A m \in Names : IsAdmin(team, m) => IsAdmin(t, m)
    BY <1>1, <2>2, <2>3, WithUserType DEF IsAdmin
  <2>5. config.login => Builtin # {} \/ \E m \in Names : IsAdmin(t, m)
    BY <2>4 DEF IInv, TeamHasAdministrator
  <2> HIDE DEF t
  <2> QED  BY <2>3, <2>4, <2>5, SaveInvariant
<1>3. CASE \E password \in BOOLEAN, role \in {None, "admin", "member"},
              gs \in (SUBSET Groups) \cup {None} : UpdateUser(n, password, role, gs)
  <2>1. PICK password \in BOOLEAN, role \in {None, "admin", "member"},
             gs \in (SUBSET Groups) \cup {None} : UpdateUser(n, password, role, gs)
    BY <1>3
  <2> DEFINE user == team.users[n]
             renewed == [user EXCEPT !.default = @ /\ ~password]
             u == [renewed EXCEPT !.role = IF role = None THEN @ ELSE role,
                                  !.groups = IF gs = None THEN @ ELSE Exists(team, gs)]
             t == WithUser(n, u)
  <2>2. user \in User
    BY <1>1, <2>1 DEF UpdateUser, TypeOK
  <2>3. renewed \in User /\ renewed.role = user.role
    BY <2>2
  <2>4. CASE role = "member" /\ OnlyAdmin(n)
    <3>1. /\ Happens /\ team' = WithUser(n, renewed) /\ unsaved' = (unsaved \/ renewed # user)
          /\ UNCHANGED <<config, file, outs, clients, push>>
      BY <2>1, <2>4 DEF UpdateUser
    <3> HIDE DEF renewed
    <3> QED  BY <2>2, <2>3, <3>1, RefusalInvariant
  <2>5. CASE ~(role = "member" /\ OnlyAdmin(n))
    <3>1. Save(t) /\ Happens
      BY <2>1, <2>5 DEF UpdateUser
    <3> HIDE DEF renewed
    <3>2. u \in User /\ u.role = IF role = None THEN user.role ELSE role
      <4> DEFINE r == IF role = None THEN renewed.role ELSE role
                 kept == IF gs = None THEN renewed.groups ELSE Exists(team, gs)
      <4>1. r \in {"admin", "member"} /\ kept \in SUBSET Groups
        <5>1. renewed.role \in {"admin", "member"} /\ renewed.groups \in SUBSET Groups
          BY <2>3
        <5>2. role = None \/ role \in {"admin", "member"}
          OBVIOUS
        <5>3. ASSUME gs # None
              PROVE  Exists(team, gs) \in SUBSET Groups
          <6>1. gs \in SUBSET Groups
            BY <5>3
          <6> QED  BY <6>1 DEF Exists
        <5> QED  BY <5>1, <5>2, <5>3
      <4>2. u = [renewed EXCEPT !.role = r, !.groups = kept]
        BY <2>3
      <4> HIDE DEF r, kept, u
      <4>3. u \in User /\ u.role = r
        BY <2>3, <4>1, <4>2
      <4> QED  BY <2>3, <4>3 DEF r
    <3> HIDE DEF u
    <3>3. t \in Team /\ \A m \in Names \ {n} : IsAdmin(team, m) => IsAdmin(t, m)
      BY <1>1, <3>2, WithUserType DEF IsAdmin
    <3>4. role # "member" /\ IsAdmin(team, n) => IsAdmin(t, n)
      BY <1>1, <3>2, WithUserType, NoneIsNothing DEF IsAdmin
    <3>5. config.login => Builtin # {} \/ \E m \in Names : IsAdmin(t, m)
      BY <2>5, <3>3, <3>4 DEF IInv, TeamHasAdministrator, OnlyAdmin
    <3> HIDE DEF t
    <3> QED  BY <3>1, <3>3, <3>5, SaveInvariant
  <2> QED  BY <2>4, <2>5
<1>4. CASE DeleteUser(n)
  <2> DEFINE t == WithUser(n, None)
  <2>1. Save(t) /\ Happens /\ ~OnlyAdmin(n)
    BY <1>4 DEF DeleteUser
  <2>2. t \in Team /\ \A m \in Names \ {n} : IsAdmin(team, m) => IsAdmin(t, m)
    BY <1>1, WithUserType DEF IsAdmin
  <2>3. config.login => Builtin # {} \/ \E m \in Names : IsAdmin(t, m)
    BY <2>1, <2>2 DEF IInv, TeamHasAdministrator, OnlyAdmin
  <2> HIDE DEF t
  <2> QED  BY <2>1, <2>2, <2>3, SaveInvariant
<1> QED  BY <1>2, <1>3, <1>4 DEF UserStep

-----------------------------------------------------------------------------
(* The start *)

\* Whatever was read, there is an administrator after the first day.
LEMMA FirstDayIsRight ==
  ASSUME NEW cfg \in Config, NEW t \in Team
  PROVE  /\ FirstDay(cfg, t) \in Team
         /\ cfg.login => \/ cfg.builtin # {}
                         \/ \E n \in Names : IsAdmin(FirstDay(cfg, t), n)
<1>1. CASE ~cfg.login
  BY <1>1 DEF FirstDay
<1>2. CASE cfg.login /\ cfg.builtin # {}
  BY <1>2 DEF FirstDay
<1>3. CASE cfg.login /\ cfg.builtin = {} /\ \E n \in Names : IsAdmin(t, n)
  BY <1>3 DEF FirstDay
<1>4. CASE cfg.login /\ cfg.builtin = {} /\ ~\E n \in Names : IsAdmin(t, n)
  <2>1. FirstDay(cfg, t) = [t EXCEPT !.users[Admin] = DefaultAdmin]
    BY <1>4 DEF FirstDay
  <2>2. DefaultAdmin \in User /\ DefaultAdmin.role = "admin"
    BY DEF DefaultAdmin
  <2>3. FirstDay(cfg, t) \in Team /\ FirstDay(cfg, t).users[Admin] = DefaultAdmin
    BY <2>1, <2>2, SessionsAssumption
  <2>4. IsAdmin(FirstDay(cfg, t), Admin)
    BY <2>2, <2>3, NoneIsNothing DEF IsAdmin
  <2> QED  BY <1>4, <2>3, <2>4, SessionsAssumption
<1> QED  BY <1>1, <1>2, <1>3, <1>4

LEMMA InitInvariant == Init => IInv
<1> SUFFICES ASSUME Init PROVE IInv
  OBVIOUS
<1>1. config \in Config /\ file \in Team
  BY SessionsAssumption DEF Init
<1>2. team \in Team /\ TeamHasAdministrator
  BY <1>1, FirstDayIsRight DEF Init, TeamHasAdministrator, Builtin
<1>3. TypeOK
  <2>1. outs \in [Outs -> Air \cup {None}]
    BY DEF Init, Air
  <2>2. clients \in [Clients -> Client \cup {None}]
    BY DEF Init
  <2>3. events \in 0..MaxEvents
    BY SessionsAssumption DEF Init
  <2>4. unsaved \in BOOLEAN /\ push \in BOOLEAN
    BY DEF Init
  <2> QED  BY <1>1, <1>2, <2>1, <2>2, <2>3, <2>4 DEF TypeOK
<1>4. \A c \in Clients : Sound(clients[c])
  BY NoneIsSound DEF Init
<1> QED  BY <1>2, <1>3, <1>4 DEF IInv

LEMMA RestartInvariant ==
  ASSUME IInv, Restart
  PROVE  IInv'
<1>1. config' \in Config
  BY SessionsAssumption DEF Restart
<1>2. PICK read \in {file, NoTeam} : team' = FirstDay(config', read) /\ file' \in {read, team'}
  BY DEF Restart
<1>3. read \in Team
  BY DEF IInv, TypeOK, NoTeam
<1>4. /\ team' \in Team /\ file' \in Team
      /\ config'.login => config'.builtin # {} \/ \E n \in Names : IsAdmin(team', n)
  BY <1>1, <1>2, <1>3, FirstDayIsRight
<1>5. TeamHasAdministrator'
  BY <1>4 DEF TeamHasAdministrator, Builtin, IsAdmin
<1>6. TypeOK'
  <2>1. clients' \in [Clients -> Client \cup {None}]
    BY DEF Restart
  <2>2. outs' \in [Outs -> Air \cup {None}] /\ unsaved' \in BOOLEAN /\ push' \in BOOLEAN
    BY DEF IInv, TypeOK, Restart
  <2>3. events' \in 0..MaxEvents
    BY SessionsAssumption DEF IInv, TypeOK, Restart, Happens
  <2> QED  BY <1>1, <1>4, <2>1, <2>2, <2>3 DEF TypeOK
<1>7. \A c \in Clients : Sound(clients[c])'
  BY DEF Restart, Sound, Standing, Informed
<1> QED  BY <1>5, <1>6, <1>7 DEF IInv

-----------------------------------------------------------------------------
(* The properties *)

LEMMA Invariant == Spec => []IInv
<1>1. ASSUME IInv, [Next]_vars
      PROVE  IInv'
  <2>1. CASE \E n \in Names : UserStep(n)
    BY <1>1, <2>1, UserInvariant
  <2>2. CASE \E g \in Groups : GroupStep(g)
    BY <1>1, <2>2, GroupInvariant
  <2>3. CASE \E o \in Outs : OutKey(o) \/ RegenerateOutKey(o)
    BY <1>1, <2>3, KeyInvariant
  <2>4. CASE \E c \in Clients : SessionStep(c)
    BY <1>1, <2>4, SessionInvariant
  <2>5. CASE Heartbeat
    BY <1>1, <2>5, HeartbeatInvariant
  <2>6. CASE PushState
    BY <1>1, <2>6, PushInvariant
  <2>7. CASE Restart
    BY <1>1, <2>7, RestartInvariant
  <2>8. CASE \E o \in Outs, on \in Air \cup {None} : OutChanges(o, on)
    BY <1>1, <2>8, OutInvariant
  <2>9. CASE UNCHANGED vars
    <3>1. Others /\ push' = push /\ clients' = clients /\ events' = events
      BY <2>9 DEF vars, Others
    <3> QED  BY <1>1, <3>1, SameTeam DEF IInv, TypeOK, Sound
  <2> QED  BY <1>1, <2>1, <2>2, <2>3, <2>4, <2>5, <2>6, <2>7, <2>8, <2>9 DEF Next
<1> QED  BY <1>1, InitInvariant, PTL DEF Spec

\* The team, its file and the sessions stay well formed (team.ts, ws.ts).
THEOREM SessionsTypeCorrect == Spec => []TypeOK
BY Invariant, PTL DEF IInv

\* While the sign-in is on there is an administrator, through every change of the
\* team, written or not, and every start (team.ts:273 and 294-322).
THEOREM AdministratorStays == Spec => []TeamHasAdministrator
BY Invariant, PTL DEF IInv

\* An open session belongs to somebody on the team, unless the team has changed
\* and not been written since (ws.ts:516-526).
THEOREM WhoLeftIsOut == Spec => []NobodyStaysWhoLeft
<1>1. IInv => NobodyStaysWhoLeft
  BY DEF IInv, Sound, Standing, NobodyStaysWhoLeft
<1> QED  BY <1>1, Invariant, PTL

\* With no push to come every session knows the outs within its reach as they
\* are now, however its reach and the outs have changed (ws.ts:126-199).
THEOREM SessionsAreCurrent == Spec => []QuietClientsAreCurrent
<1>1. IInv => QuietClientsAreCurrent
  BY DEF IInv, Sound, Informed, QuietClientsAreCurrent
<1> QED  BY <1>1, Invariant, PTL
=============================================================================
