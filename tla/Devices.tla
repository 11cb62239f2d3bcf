------------------------------- MODULE Devices -------------------------------
(***************************************************************************)
(* The devices that messages are pushed to (src/src/modules/devices and    *)
(* notifications/services: fcm.service.ts, notifications.service.ts).  A   *)
(* token is one installation of the application; it has one row, and the   *)
(* row belongs to whoever signed in last on that installation.             *)
(*                                                                         *)
(* Registering, signing off and pushing all read rows first and write them *)
(* by id or by token later, without a condition.  FCM is external: it      *)
(* refuses the tokens of installations that are gone, and others when it   *)
(* takes their message for invalid; the push service deletes all those it  *)
(* refused for one of these reasons.  The message kept in the application  *)
(* is one insertion, and neither its text nor the outcome of the push      *)
(* changes anything.                                                       *)
(***************************************************************************)
EXTENDS FiniteSets

CONSTANTS
    Owners,     \* accounts
    Tokens,     \* installations of the application
    Posts,      \* calls in flight at the same time (a bound)
    NoOwner     \* "no such row"

ASSUME NoOwnerAssumption == NoOwner \notin Owners

VARIABLES
    device,     \* table Device, by deviceToken, which is unique
    gone,       \* tokens that FCM does not know any more
    post,       \* what each call has read
    home,       \* history variable: who registered a token last, and keeps it
    crossed,    \* history variable: tokens signed off, or deleted, by a call that
                \* had read them before somebody signed in on them
    refused     \* history variable: tokens FCM refused although they are installed

deviceVars == <<device, gone, post, home, crossed, refused>>

\* live: deletedAt is null.
Device == [owner : Owners \cup {NoOwner}, live : BOOLEAN]
NoDevice == [owner |-> NoOwner, live |-> FALSE]

\* found: the row that was looked for is there.  late: tokens that somebody signed
\* in on since the reading (history).
Post == [at : {"idle", "register", "unregister", "push", "purge"},
         owner : Owners \cup {NoOwner}, tokens : SUBSET Tokens,
         found : BOOLEAN, late : SUBSET Tokens]
NoPost == [at |-> "idle", owner |-> NoOwner, tokens |-> {}, found |-> FALSE, late |-> {}]

DevicesInit ==
    /\ device = [t \in Tokens |-> NoDevice]
    /\ gone = {}
    /\ post = [c \in Posts |-> NoPost]
    /\ home = [t \in Tokens |-> NoOwner]
    /\ crossed = {} /\ refused = {}

LiveOf(u) == {t \in Tokens : device[t].live /\ device[t].owner = u}

Reads(c, at, u, tokens, found) ==
    /\ post[c].at = "idle"
    /\ post' = [post EXCEPT ![c] = [at |-> at, owner |-> u, tokens |-> tokens,
                                    found |-> found, late |-> {}]]
    /\ UNCHANGED <<device, gone, home, crossed, refused>>

\* The call ends after somebody signed in on these tokens.
SignedIn(c, tokens) ==
    /\ post' = [d \in Posts |->
           IF d = c THEN NoPost
           ELSE [post[d] EXCEPT !.late = @ \cup (tokens \cap post[d].tokens)]]
    /\ crossed' = crossed \ tokens
    /\ refused' = refused \ tokens

\* The call ends after it marked the rows of its tokens as deleted, by id or by
\* token, whoever owns them now.
Silenced(c) ==
    /\ device' = [t \in Tokens |->
           IF t \in post[c].tokens THEN [device[t] EXCEPT !.live = FALSE] ELSE device[t]]
    /\ post' = [post EXCEPT ![c] = NoPost]
    /\ crossed' = crossed \cup (post[c].tokens \cap post[c].late)
    /\ UNCHANGED <<gone, refused>>

-----------------------------------------------------------------------------
(* Signing in and out on a device. *)

ReadForRegister(c) ==
    \E u \in Owners, t \in Tokens \ gone :
        Reads(c, "register", u, {t}, device[t] # NoDevice)

\* An existing row changes hands and comes back to life; a new one is refused if
\* another call has created it meanwhile.
RegisterDevice(c) ==
    /\ post[c].at = "register"
    /\ LET u == post[c].owner
           written == {t \in post[c].tokens : post[c].found \/ device[t] = NoDevice}
       IN  /\ device' = [t \in Tokens |->
                  IF t \in written THEN [owner |-> u, live |-> TRUE] ELSE device[t]]
           /\ home' = [t \in Tokens |-> IF t \in written THEN u ELSE home[t]]
           /\ SignedIn(c, written)
    /\ UNCHANGED gone

ReadForUnregister(c) ==
    \E u \in Owners : \E t \in LiveOf(u) : Reads(c, "unregister", u, {t}, TRUE)

UnregisterDevice(c) ==
    /\ post[c].at = "unregister"
    /\ Silenced(c)
    /\ home' = [t \in Tokens |->
           IF t \in post[c].tokens /\ home[t] = post[c].owner THEN NoOwner ELSE home[t]]

-----------------------------------------------------------------------------
(* Pushing a message. *)

\* notifyUser keeps the message, then sendToUser reads the devices of the account.
NotifyUser(c) ==
    \E u \in Owners : LiveOf(u) # {} /\ Reads(c, "push", u, LiveOf(u), TRUE)

\* Mutant: all the devices that the message was for are deleted.
MulticastMutant(c) ==
    /\ post[c].at = "push"
    /\ post' = [post EXCEPT ![c].at = "purge"]
    /\ UNCHANGED <<device, gone, home, crossed, refused>>

\* FCM answers for each token, and may refuse any of them; the call may also fail
\* as a whole, or for reasons that delete nothing.
Multicast(c) ==
    /\ post[c].at = "push"
    /\ \E stale \in SUBSET post[c].tokens :
           /\ post' = [post EXCEPT ![c] =
                  IF stale = {} THEN NoPost ELSE [@ EXCEPT !.at = "purge", !.tokens = stale]]
           /\ refused' = refused \cup (stale \ gone)
    /\ UNCHANGED <<device, gone, home, crossed>>

PurgeStale(c) ==
    /\ post[c].at = "purge"
    /\ Silenced(c)
    /\ UNCHANGED home

Uninstalled ==
    /\ \E t \in Tokens \ gone : gone' = gone \cup {t}
    /\ UNCHANGED <<device, post, home, crossed, refused>>

DevicesNext ==
    \/ \E c \in Posts :
           \/ ReadForRegister(c) \/ RegisterDevice(c) \/ ReadForUnregister(c) \/ UnregisterDevice(c)
           \/ NotifyUser(c) \/ Multicast(c) \/ PurgeStale(c)
    \/ Uninstalled

DevicesSpec == DevicesInit /\ [][DevicesNext]_deviceVars

-----------------------------------------------------------------------------
(* Properties *)

DevicesTypeOK ==
    /\ device \in [Tokens -> Device]
    /\ gone \subseteq Tokens
    /\ post \in [Posts -> Post]
    /\ home \in [Tokens -> Owners \cup {NoOwner}]
    /\ crossed \subseteq Tokens /\ refused \subseteq Tokens

\* An installation never rings for another account than the one that signed in on
\* it last, whatever calls overlap; and it rings for that one until it signs off or
\* the application is removed.  It falls silent before, until the next sign-in, in
\* two cases only: FCM refused its token, or a sign-off or a deletion decided
\* before this account signed in came after it (devices.service.ts:14, 39;
\* fcm.service.ts:204, 211).
RingsForItsOwner ==
    \A t \in Tokens :
        /\ device[t].live => device[t].owner = home[t]
        /\ home[t] # NoOwner =>
               device[t].live \/ t \in gone \cup crossed \cup refused

=============================================================================
