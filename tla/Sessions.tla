------------------------------ MODULE Sessions ------------------------------
(***************************************************************************)
(* The team and the WebSocket sessions it lets in (extension/team.ts,      *)
(* auth.ts, ws.ts).  The team is changed in memory first and then written  *)
(* to its file; the sessions hear of a change when the write succeeds.  A  *)
(* session is told the state of the outs it reaches, once after a burst of *)
(* changes and only when it differs from what it was told last.            *)
(*                                                                         *)
(* Passwords are right or wrong; a key is new when nobody has held it.     *)
(***************************************************************************)
EXTENDS Naturals, FiniteSets

CONSTANTS Names,       \* of users
          Admin,       \* DEFAULT_ADMIN.username
          Groups, Keys, Outs, Clients,
          Configs,     \* the configurations the server may be started with
          Files,       \* the teams the file may hold at first
          None,
          MaxEvents    \* bound on changes, connections and restarts

VARIABLES
  config,      \* the part of the server's configuration read here
  team,        \* Team.data
  file,        \* the team's file
  unsaved,     \* the team has changed since its listeners were last called
  outs,        \* the outs replicant: what is on each, None: there is no such out
  clients,
  push,        \* stateTimer is set
  events

vars == <<config, team, file, unsaved, outs, clients, push, events>>

Air == {"off", "on"}
User == [role : {"admin", "member"}, groups : SUBSET Groups, default : BOOLEAN]
Group == [outs : SUBSET Outs, keys : SUBSET Keys]
Team == [users : [Names -> User \cup {None}], groups : [Groups -> Group \cup {None}],
         outKeys : SUBSET Outs]
Config == [login : BOOLEAN, builtin : SUBSET Names, token : BOOLEAN]

Everything == [user |-> None, group |-> None, key |-> None]
AsUser(n) == [user |-> n, group |-> None, key |-> None]
WithKey(g, k) == [user |-> None, group |-> g, key |-> k]
Principal ==
  {Everything} \cup {AsUser(n) : n \in Names} \cup {WithKey(g, k) : g \in Groups, k \in Keys}
View == [outs : SUBSET (Outs \X Air), groups : SUBSET Groups]
Client == [principal : Principal \cup {None}, last : View \cup {None}, state : BOOLEAN,
           open : BOOLEAN, there : BOOLEAN, alive : BOOLEAN, loginTimer : BOOLEAN]

ASSUME SessionsAssumption ==
  /\ Admin \in Names /\ Configs \subseteq Config /\ Files \subseteq Team
  /\ MaxEvents \in Nat

ASSUME NoneIsNothing ==
  /\ None \notin User /\ None \notin Group /\ None \notin Principal /\ None \notin View
  /\ None \notin Client /\ None \notin Air
  /\ None \notin Names /\ None \notin Groups /\ None \notin Keys /\ None \notin {"admin", "member"}

TypeOK ==
  /\ config \in Config /\ team \in Team /\ file \in Team
  /\ unsaved \in BOOLEAN /\ push \in BOOLEAN /\ events \in 0..MaxEvents
  /\ outs \in [Outs -> Air \cup {None}]
  /\ clients \in [Clients -> Client \cup {None}]

-----------------------------------------------------------------------------
(* Who is who (team.ts, auth.ts) *)

\* A sign-in that is off has no users of its configuration.
Builtin == IF config.login THEN config.builtin ELSE {}

RoleOf(t, n) ==
  IF ~config.login \/ n \in Builtin THEN "admin"
  ELSE IF t.users[n] = None THEN None ELSE t.users[n].role

Exists(t, gs) == {g \in gs : t.groups[g] # None}

GroupsOf(t, p) ==
  IF p = Everything THEN Groups
  ELSE IF p.user = None THEN {p.group}
  ELSE IF RoleOf(t, p.user) = "admin" THEN Groups
  ELSE IF t.users[p.user] = None THEN {} ELSE Exists(t, t.users[p.user].groups)

OutsOf(t, p) ==
  IF p = Everything \/ (p.user # None /\ RoleOf(t, p.user) = "admin") THEN Outs
  ELSE UNION {t.groups[g].outs : g \in Exists(t, GroupsOf(t, p))}

Valid(t, p) ==
  \/ p = Everything
  \/ p.user # None /\ RoleOf(t, p.user) # None
  \/ p.group # None /\ t.groups[p.group] # None /\ p.key \in t.groups[p.group].keys

HasGroupKeys(t) == \E g \in Exists(t, Groups) : t.groups[g].keys # {}
Open == ~config.token /\ ~config.login /\ ~HasGroupKeys(team)

\* Who can sign in: the holder of the global key, of a group's key, and, while
\* the sign-in is on, a user of the configuration or of the team.
SignIn ==
  {p \in Principal :
     \/ p = Everything /\ config.token
     \/ p.group # None /\ Valid(team, p)
     \/ p.user # None /\ config.login /\ (p.user \in Builtin \/ team.users[p.user] # None)}

-----------------------------------------------------------------------------
(* What a session is told (ws.ts) *)

\* Of the timers it is told those of its groups.
StateFor(t, os, p) ==
  [outs |-> {<<o, os[o]>> : o \in {o \in OutsOf(t, p) : os[o] # None}},
   groups |-> GroupsOf(t, p)]

\* A session told the state now, if it has asked for it.
Told(t, os, c) ==
  IF c # None /\ c.principal # None /\ c.state THEN [c EXCEPT !.last = StateFor(t, os, c.principal)]
  ELSE c

Reject(c) == [c EXCEPT !.open = FALSE]

Admit(c, p) == Told(team, outs, [c EXCEPT !.principal = p, !.loginTimer = FALSE])

\* A slip: only users are looked for.
RevokedUsers(t, c) ==
  IF c # None /\ c.principal # None /\ c.principal.group = None /\ ~Valid(t, c.principal)
  THEN Reject(c) ELSE c

\* The listener of the team.
Revoked(t, c) ==
  IF c # None /\ c.principal # None /\ ~Valid(t, c.principal) THEN Reject(c) ELSE c

-----------------------------------------------------------------------------
(* Changes of the team *)

Happens == events < MaxEvents /\ events' = events + 1

\* A slip: the sessions are looked through and told nothing.
SaveUntold(t) ==
  /\ team' = t
  /\ \/ /\ file' = t /\ unsaved' = FALSE
        /\ clients' = [c \in Clients |-> Revoked(t, clients[c])]
     \/ unsaved' = TRUE /\ UNCHANGED <<file, clients>>
  /\ UNCHANGED <<config, outs, push>>

\* The file is written and the listeners are called, or the change is answered
\* with an error and stays in memory.
Save(t) ==
  /\ team' = t
  /\ \/ /\ file' = t /\ unsaved' = FALSE /\ push' = TRUE
        /\ clients' = [c \in Clients |-> Revoked(t, clients[c])]
     \/ unsaved' = TRUE /\ UNCHANGED <<file, push, clients>>
  /\ UNCHANGED <<config, outs>>

WithUser(n, u) == [team EXCEPT !.users[n] = u]
WithGroup(g, group) == [team EXCEPT !.groups[g] = group]

IsAdmin(t, n) == t.users[n] # None /\ t.users[n].role = "admin"

\* keepAnAdministrator refuses.
OnlyAdmin(n) ==
  /\ IsAdmin(team, n) /\ Builtin = {}
  /\ \A other \in Names \ {n} : ~IsAdmin(team, other)

CreateUser(n, role, gs) ==
  /\ Happens
  /\ team.users[n] = None /\ n \notin Builtin
  /\ Save(WithUser(n, [role |-> role, groups |-> Exists(team, gs), default |-> FALSE]))

\* The password is changed before the role is refused.  role, gs: None to keep.
UpdateUser(n, password, role, gs) ==
  LET user == team.users[n]
      renewed == [user EXCEPT !.default = @ /\ ~password]
  IN  /\ Happens
      /\ user # None
      /\ IF role = "member" /\ OnlyAdmin(n)
         THEN /\ team' = WithUser(n, renewed)
              /\ unsaved' = (unsaved \/ renewed # user)
              /\ UNCHANGED <<config, file, outs, clients, push>>
         ELSE Save(WithUser(n, [renewed EXCEPT
                !.role = IF role = None THEN @ ELSE role,
                !.groups = IF gs = None THEN @ ELSE Exists(team, gs)]))

\* A slip: any other user will do.
DeleteUserButOne(n) ==
  /\ Happens
  /\ team.users[n] # None
  /\ OnlyAdmin(n) => \E other \in Names \ {n} : team.users[other] # None
  /\ Save(WithUser(n, None))

DeleteUser(n) ==
  /\ Happens
  /\ team.users[n] # None /\ ~OnlyAdmin(n)
  /\ Save(WithUser(n, None))

HeldBy(c) == IF clients[c] = None THEN None ELSE clients[c].principal

\* A new group is none that anything still refers to.
CreateGroup(g, os) ==
  /\ Happens
  /\ team.groups[g] = None /\ file.groups[g] = None
  /\ \A c \in Clients : HeldBy(c) # None => HeldBy(c).group # g
  /\ Save(WithGroup(g, [outs |-> {o \in os : outs[o] # None}, keys |-> {}]))

UpdateGroup(g, os) ==
  /\ Happens
  /\ team.groups[g] # None
  /\ Save(WithGroup(g, [team.groups[g] EXCEPT !.outs = {o \in os : outs[o] # None}]))

DeleteGroup(g) ==
  /\ Happens
  /\ team.groups[g] # None
  /\ Save([team EXCEPT
       !.groups[g] = None,
       !.users = [n \in Names |-> IF team.users[n] = None THEN None
                                  ELSE [team.users[n] EXCEPT !.groups = @ \ {g}]]])

\* A new key is none that anybody holds or the file knows.
Fresh(k) ==
  /\ \A t \in {team, file} : \A g \in Exists(t, Groups) : k \notin t.groups[g].keys
  /\ \A c \in Clients : HeldBy(c) # None => HeldBy(c).key # k

AddGroupKey(g, k) ==
  /\ Happens
  /\ team.groups[g] # None /\ Fresh(k)
  /\ Save(WithGroup(g, [team.groups[g] EXCEPT !.keys = @ \cup {k}]))

RemoveGroupKey(g, k) ==
  /\ Happens
  /\ team.groups[g] # None /\ k \in team.groups[g].keys
  /\ Save(WithGroup(g, [team.groups[g] EXCEPT !.keys = @ \ {k}]))

\* The key of an out's link, and likewise that of the NDI senders, is made when
\* somebody first looks; a look that only finds keys writes nothing, whether or
\* not they were ever written.
OutKey(o) ==
  /\ Happens
  /\ config.login /\ outs[o] # None /\ o \notin team.outKeys
  /\ Save([team EXCEPT !.outKeys = @ \cup {o}])

RegenerateOutKey(o) ==
  /\ Happens
  /\ config.login /\ outs[o] # None
  /\ Save([team EXCEPT !.outKeys = @ \cup {o}])

-----------------------------------------------------------------------------
(* Sessions *)

Others == UNCHANGED <<config, team, file, unsaved, outs>>

NewClient ==
  [principal |-> None, last |-> None, state |-> TRUE, open |-> TRUE, there |-> TRUE,
   alive |-> TRUE, loginTimer |-> FALSE]

\* Without a key, or with one in the handshake, right or wrong.
Connect(c) ==
  /\ Happens
  /\ clients[c] = None
  /\ \E new \in IF Open THEN {Admit(NewClient, Everything)}
                ELSE {[NewClient EXCEPT !.loginTimer = TRUE], Reject(NewClient)}
                     \cup {Admit(NewClient, p) : p \in {p \in SignIn : p.user = None}} :
       clients' = [clients EXCEPT ![c] = new]
  /\ Others /\ UNCHANGED push

\* Frames are heard from whoever is connected, also after the server has closed.
Sends(c) == clients[c] # None /\ clients[c].there

Becomes(c, client) ==
  /\ clients' = [clients EXCEPT ![c] = client]
  /\ Others /\ UNCHANGED <<push, events>>

Login(c) ==
  /\ Sends(c)
  /\ IF Open THEN /\ clients[c].principal = None
                  /\ Becomes(c, Admit(clients[c], Everything))
     ELSE \E p \in SignIn : Becomes(c, Admit(clients[c], p))

\* A login that is wrong, or another command of one who has not signed in.
Refused(c) ==
  /\ Sends(c)
  /\ ~Open \/ clients[c].principal = None
  /\ Becomes(c, Reject(clients[c]))

Subscribe(c) ==
  /\ Sends(c) /\ clients[c].principal # None /\ ~clients[c].state
  /\ Becomes(c, Told(team, outs, [clients[c] EXCEPT !.state = TRUE]))

\* What it was told last is not looked at before it subscribes again.
Unsubscribe(c) ==
  /\ Sends(c) /\ clients[c].principal # None /\ clients[c].state
  /\ Becomes(c, [clients[c] EXCEPT !.state = FALSE, !.last = None])

LoginTimeout(c) ==
  /\ clients[c] # None /\ clients[c].loginTimer
  /\ Becomes(c, [Reject(clients[c]) EXCEPT !.loginTimer = FALSE])

\* By its other end.
Leave(c) == Sends(c) /\ Becomes(c, None)

\* The other end has answered the server's close, or has not in time.
Closed(c) == clients[c] # None /\ ~clients[c].open /\ Becomes(c, None)

\* The other end is gone without a word.
Vanish(c) == Sends(c) /\ Becomes(c, [clients[c] EXCEPT !.there = FALSE])

Pong(c) == Sends(c) /\ Becomes(c, [clients[c] EXCEPT !.alive = TRUE])

\* A slip: who does not answer is asked again.
HeartbeatAgain ==
  /\ clients' = [c \in Clients |->
       IF clients[c] = None THEN None ELSE [clients[c] EXCEPT !.alive = FALSE]]
  /\ Others /\ UNCHANGED <<push, events>>

Heartbeat ==
  /\ clients' = [c \in Clients |->
       IF clients[c] = None \/ ~clients[c].alive THEN None
       ELSE [clients[c] EXCEPT !.alive = FALSE]]
  /\ Others /\ UNCHANGED <<push, events>>

PushState ==
  /\ push
  /\ push' = FALSE
  /\ clients' = [c \in Clients |-> Told(team, outs, clients[c])]
  /\ Others /\ UNCHANGED events

\* An out is made, removed, or what is on it changes.
OutChanges(o, on) ==
  /\ Happens
  /\ outs[o] # on
  /\ outs' = [outs EXCEPT ![o] = on]
  /\ push' = TRUE
  /\ UNCHANGED <<config, team, file, unsaved, clients>>

-----------------------------------------------------------------------------
(* The server starts *)

NoTeam == [users |-> [n \in Names |-> None], groups |-> [g \in Groups |-> None], outKeys |-> {}]
DefaultAdmin == [role |-> "admin", groups |-> {}, default |-> TRUE]

\* The team as the constructor leaves what it has read.
FirstDay(cfg, t) ==
  IF ~cfg.login THEN t
  ELSE IF cfg.builtin # {}
  THEN [t EXCEPT !.users = [n \in Names |-> IF @[n] # None /\ @[n].default THEN None ELSE @[n]]]
  ELSE IF \E n \in Names : IsAdmin(t, n) THEN t
  ELSE [t EXCEPT !.users[Admin] = DefaultAdmin]

Init ==
  /\ config \in Configs /\ file \in Files
  /\ team = FirstDay(config, file)
  /\ unsaved = FALSE /\ push = FALSE /\ events = 0
  /\ outs \in [Outs -> {"off", None}]
  /\ clients = [c \in Clients |-> None]

\* The server stops, or is killed, and starts with another configuration.  A
\* file that cannot be read is put aside; what the first day decides is written
\* if it can be.
Restart ==
  /\ Happens
  /\ config' \in Configs
  /\ \E read \in {file, NoTeam} :
       /\ team' = FirstDay(config', read)
       /\ file' \in {read, team'}
  /\ unsaved' = FALSE /\ push' = FALSE
  /\ clients' = [c \in Clients |-> None]
  /\ UNCHANGED outs

-----------------------------------------------------------------------------

UserStep(n) ==
  \/ \E role \in {"admin", "member"}, gs \in SUBSET Groups : CreateUser(n, role, gs)
  \/ \E password \in BOOLEAN, role \in {None, "admin", "member"}, gs \in (SUBSET Groups) \cup {None} :
       UpdateUser(n, password, role, gs)
  \/ DeleteUser(n)

GroupStep(g) ==
  \/ \E os \in SUBSET Outs : CreateGroup(g, os)
  \/ \E os \in SUBSET Outs : UpdateGroup(g, os)
  \/ DeleteGroup(g)
  \/ \E k \in Keys : AddGroupKey(g, k)
  \/ \E k \in Keys : RemoveGroupKey(g, k)

SessionStep(c) ==
  \/ Connect(c) \/ Login(c) \/ Refused(c) \/ Subscribe(c) \/ Unsubscribe(c)
  \/ LoginTimeout(c) \/ Leave(c) \/ Closed(c) \/ Vanish(c) \/ Pong(c)

Next ==
  \/ \E n \in Names : UserStep(n)
  \/ \E g \in Groups : GroupStep(g)
  \/ \E o \in Outs : OutKey(o) \/ RegenerateOutKey(o)
  \/ \E c \in Clients : SessionStep(c)
  \/ Heartbeat \/ PushState \/ Restart
  \/ \E o \in Outs, on \in Air \cup {None} : OutChanges(o, on)

\* Timeouts and the interval fire, and a socket the server has closed ends.
Spec ==
  /\ Init /\ [][Next]_vars
  /\ WF_vars(Heartbeat) /\ WF_vars(PushState)
  /\ \A c \in Clients : WF_vars(LoginTimeout(c)) /\ WF_vars(Closed(c))

-----------------------------------------------------------------------------
(* The properties *)

\* While the sign-in is on there is an administrator, whoever is deleted or made
\* a member, whichever of it could be written, and however the configuration
\* changes between two starts (README.md:710, keepAnAdministrator).
TeamHasAdministrator ==
  config.login => Builtin # {} \/ \E n \in Names : IsAdmin(team, n)

\* A session that is open belongs to somebody on the team, unless the change
\* that took them off could not be written and none has been since (ws.ts:516).
NobodyStaysWhoLeft ==
  \A c \in Clients :
    clients[c] # None /\ clients[c].open /\ clients[c].principal # None
      => Valid(team, clients[c].principal) \/ unsaved

\* As README.md:712-719 puts it; RemovedStays.cfg shows the exception above.
RemovedLeaves ==
  \A c \in Clients :
    clients[c] # None /\ clients[c].open /\ clients[c].principal # None
      => Valid(team, clients[c].principal)

\* With no push on its way, every session knows what is on the outs that are
\* within its reach now, neither less nor more; again unless a change of the
\* team has not been written (ws.ts, pushState and sendState).
QuietClientsAreCurrent ==
  ~push /\ ~unsaved =>
    \A c \in Clients :
      clients[c] # None /\ clients[c].open /\ clients[c].principal # None /\ clients[c].state
        => clients[c].last = StateFor(team, outs, clients[c].principal)

\* Who vanishes is forgotten, who does not sign in is shown the door, and a
\* session comes to be current again, however often the outs and the team change
\* (ws.ts, heartbeat, LOGIN_TIMEOUT_MS and PUSH_DEBOUNCE_MS).
SessionsSettle ==
  \A c \in Clients :
    /\ clients[c] # None /\ ~clients[c].there ~> clients[c] = None
    /\ clients[c] # None /\ clients[c].principal = None
         ~> clients[c] = None \/ clients[c].principal # None
    /\ []<>(clients[c] # None /\ clients[c].open /\ clients[c].principal # None
              /\ clients[c].state /\ ~unsaved
            => clients[c].last = StateFor(team, outs, clients[c].principal))
=============================================================================
