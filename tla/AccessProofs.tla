---------------------------- MODULE AccessProofs ----------------------------
(***************************************************************************)
(* Proofs about what reaches an account and what is decided about one: the *)
(* limit on the calls of a client (RateLimits), the installation that      *)
(* rings for it (Devices), the tokens of the back office (WebAccounts),    *)
(* the vote on its deletion (DeletionVote), the reports on its orders      *)
(* (Feedback) and the reminders to its owner (Reminders), for any numbers  *)
(* of calls, windows, accounts, rows and passes.                           *)
(*                                                                         *)
(* Each property is an invariant of rows that no call locks: what is       *)
(* proved on the way is what a call in flight still knows of the rows it   *)
(* has read.                                                               *)
(***************************************************************************)
EXTENDS RateLimits, Devices, WebAccounts, DeletionVote, Feedback, Reminders,
        SumsProofs, TLAPS

-----------------------------------------------------------------------------
(* The limit on calls.                                                     *)

\* The row of a window counts every call that was let through since it was last
\* deleted, which it is only after its window.
WindowSound(w) ==
    /\ through[w] <= renewed[w] + bucket[w]
    /\ through[w] <= renewed[w] + Limit
    /\ clock <= EndOfWindow(w) => renewed[w] = 0

RateInv ==
    /\ clock \in Ticks
    /\ hit \in [Hits -> Hit]
    /\ blocked \in [Windows -> Nat]
    /\ bucket \in [Windows -> Nat]
    /\ through \in [Windows -> Nat]
    /\ renewed \in [Windows -> Nat]
    /\ \A w \in Windows : WindowSound(w)

LEMMA WindowsEnd ==
    ASSUME NEW w \in Windows
    PROVE  EndOfWindow(w) \in Int
BY RateAssumption DEF Windows, EndOfWindow

LEMMA RateInvInit == RateInit => RateInv
BY RateAssumption DEF RateInit, RateInv, WindowSound, Ticks, Hit, NoHit

\* A call is let through when its row, with itself, is within the limit.
LEMMA CountKeepsWindows ==
    ASSUME RateInv, NEW h \in Hits, Count(h), NEW w \in Windows
    PROVE  WindowSound(w)'
<1> DEFINE t == hit[h].now
           v == WindowOf(t)
<1>1. /\ clock' = clock /\ renewed' = renewed
      /\ bucket' = [bucket EXCEPT ![v] = @ + 1]
    BY DEF Count
<1>2. \/ through' = through
      \/ /\ through' = [through EXCEPT ![v] = @ + 1]
         /\ ~MustBlock(bucket[v] + 1, blocked[v], t) /\ ~(blocked[v] > t)
    BY DEF Count
<1>3. /\ bucket[w] \in Nat /\ through[w] \in Nat /\ blocked[w] \in Nat /\ renewed[w] \in Nat
      /\ clock \in Int /\ EndOfWindow(w) \in Int /\ Limit \in Int /\ t \in Int
    BY WindowsEnd, RateAssumption DEF RateInv, Ticks, Hit
<1>4. WindowSound(w) /\ bucket \in [Windows -> Nat] /\ through \in [Windows -> Nat]
    BY DEF RateInv
<1>5. EndOfWindow(w)' = EndOfWindow(w)
    BY DEF EndOfWindow
<1>6. CASE w # v
    <2>1. bucket'[w] = bucket[w] /\ through'[w] = through[w]
        BY <1>1, <1>2, <1>4, <1>6
    <2> QED
        BY <2>1, <1>1, <1>4, <1>5 DEF WindowSound
<1>7. CASE w = v
    <2>1. bucket'[w] = bucket[w] + 1
        BY <1>1, <1>4, <1>7
    <2>2. through'[w] = through[w] \/ (through'[w] = through[w] + 1 /\ bucket[w] + 1 <= Limit)
        BY <1>2, <1>3, <1>4, <1>7 DEF MustBlock
    <2> QED
        BY <2>1, <2>2, <1>1, <1>3, <1>4, <1>5 DEF WindowSound
<1> QED
    BY <1>6, <1>7

LEMMA OneMore ==
    ASSUME NEW S, NEW f \in [S -> Nat], NEW v
    PROVE  [f EXCEPT ![v] = @ + 1] \in [S -> Nat]
<1>1. ASSUME v \in S PROVE f[v] + 1 \in Nat
    BY <1>1
<1> QED
    BY <1>1

LEMMA RateInvNext == RateInv /\ [RateNext]_rateVars => RateInv'
<1> SUFFICES ASSUME RateInv, [RateNext]_rateVars
             PROVE  RateInv'
    OBVIOUS
<1> USE RateAssumption DEF RateInv, Ticks, Hit
<1>1. CASE UNCHANGED rateVars
    BY <1>1 DEF rateVars, WindowSound, EndOfWindow
<1>2. ASSUME NEW h \in Hits, ReadClock(h) PROVE RateInv'
    BY <1>2 DEF ReadClock, WindowSound, EndOfWindow
<1>3. ASSUME NEW h \in Hits, Count(h) PROVE RateInv'
    <2>1. \A w \in Windows : WindowSound(w)'
        BY <1>3, CountKeepsWindows
    <2>2. clock' \in Ticks /\ hit' \in [Hits -> Hit] /\ blocked' \in [Windows -> Nat]
        BY <1>3 DEF Count
    <2>3. /\ bucket' \in [Windows -> Nat] /\ through' \in [Windows -> Nat]
          /\ renewed' \in [Windows -> Nat]
        <3> DEFINE v == WindowOf(hit[h].now)
        <3>1. /\ bucket' = [bucket EXCEPT ![v] = @ + 1]
              /\ through' = through \/ through' = [through EXCEPT ![v] = @ + 1]
              /\ renewed' = renewed
            BY <1>3 DEF Count
        <3> QED
            BY <3>1, OneMore
    <2> QED
        BY <2>1, <2>2, <2>3
<1>4. ASSUME NEW h \in Hits, Block(h) PROVE RateInv'
    <2>1. hit' \in [Hits -> Hit] /\ UNCHANGED <<clock, bucket, through, renewed>>
        BY <1>4 DEF Block
    <2>2. blocked' \in [Windows -> Nat]
        <3> DEFINE v == WindowOf(hit[h].now)
        <3>1. \/ blocked' = blocked
              \/ blocked' = [blocked EXCEPT ![v] = hit[h].now + BlockFor]
            BY <1>4 DEF Block
        <3>2. hit[h].now + BlockFor \in Nat
            OBVIOUS
        <3> HIDE DEF v
        <3> QED
            BY <3>1, <3>2
    <2> QED
        BY <2>1, <2>2 DEF WindowSound, EndOfWindow
<1>5. ASSUME NEW h \in Hits, Clean(h) PROVE RateInv'
    <2>1. hit' \in [Hits -> Hit] /\ UNCHANGED <<clock, through>>
        BY <1>5 DEF Clean, NoHit
    <2>2. /\ bucket' \in [Windows -> Nat] /\ blocked' \in [Windows -> Nat]
          /\ renewed' \in [Windows -> Nat]
        <3>1. CASE UNCHANGED <<bucket, blocked, renewed>>
            BY <3>1
        <3>2. CASE /\ bucket' = [w \in Windows |-> IF Over(w) THEN 0 ELSE bucket[w]]
                   /\ blocked' = [w \in Windows |-> IF Over(w) THEN 0 ELSE blocked[w]]
                   /\ renewed' = [w \in Windows |->
                          IF Over(w) /\ bucket[w] > 0 THEN renewed[w] + Limit ELSE renewed[w]]
            <4>1. \A w \in Windows : renewed[w] + Limit \in Nat
                OBVIOUS
            <4> QED
                BY <3>2, <4>1
        <3> QED
            BY <1>5, <3>1, <3>2 DEF Clean
    <2>3. ASSUME NEW w \in Windows PROVE WindowSound(w)'
        <3>1. \/ bucket'[w] = bucket[w] /\ renewed'[w] = renewed[w]
              \/ /\ Over(w) /\ bucket'[w] = 0 /\ bucket[w] > 0
                 /\ renewed'[w] = renewed[w] + Limit
            BY <1>5 DEF Clean
        <3>2. WindowSound(w) /\ EndOfWindow(w)' = EndOfWindow(w) /\ EndOfWindow(w) \in Int
            BY WindowsEnd DEF EndOfWindow
        <3>3. bucket[w] \in Nat /\ through[w] \in Nat /\ renewed[w] \in Nat /\ clock \in Int
            OBVIOUS
        <3> QED
            BY ONLY <2>1, <3>1, <3>2, <3>3, RateAssumption DEF WindowSound, Over
    <2> QED
        BY <2>1, <2>2, <2>3
<1>6. ASSUME NEW h \in Hits, Vanish(h) PROVE RateInv'
    BY <1>6 DEF Vanish, NoHit, WindowSound, EndOfWindow
<1>7. CASE Second
    <2>1. UNCHANGED <<bucket, blocked, hit, through, renewed>> /\ clock' \in Ticks
        BY <1>7 DEF Second
    <2>2. ASSUME NEW w \in Windows PROVE WindowSound(w)'
        <3>1. clock' <= EndOfWindow(w) => clock <= EndOfWindow(w)
            BY <1>7, WindowsEnd DEF Second
        <3>2. EndOfWindow(w)' = EndOfWindow(w)
            BY DEF EndOfWindow
        <3> QED
            BY <2>1, <3>1, <3>2 DEF WindowSound
    <2> QED
        BY <2>1, <2>2
<1> QED
    BY <1>1, <1>2, <1>3, <1>4, <1>5, <1>6, <1>7 DEF RateNext

\* No more calls of a window are let through than the limit says until the window is
\* over for the database, and after that no more than as many again for each time its
\* row was deleted, whatever instances count, block and clean the rows together,
\* however slow they are and however far their clocks are off
\* (distributed-throttler.storage.ts:24, 31, 67).
THEOREM LimitHolds == RateSpec => []LimitPerWindow
<1>1. RateInv => LimitPerWindow
    <2> SUFFICES ASSUME RateInv, NEW w \in Windows
                 PROVE  /\ clock <= EndOfWindow(w) => through[w] <= Limit
                        /\ through[w] <= Limit + renewed[w]
        BY DEF LimitPerWindow
    <2>1. WindowSound(w) /\ through[w] \in Nat /\ renewed[w] \in Nat
        BY DEF RateInv
    <2> QED
        BY <2>1, RateAssumption DEF WindowSound
<1> QED
    BY RateInvInit, RateInvNext, <1>1, PTL DEF RateSpec

-----------------------------------------------------------------------------
(* Devices.                                                                *)

\* A row that lives belongs to whoever registered it last.
TokenSound(t) ==
    /\ device[t].live => home[t] = device[t].owner
    /\ t \in gone \cup crossed \cup refused \/ home[t] = NoOwner \/ device[t].live

\* Whoever signs off knows whose row it is until somebody signs in on it; the rows
\* to be purged are those that FCM refused, unless somebody signed in since.
PostSound(c) ==
    /\ post[c].at = "unregister" =>
           \A t \in post[c].tokens \ post[c].late : home[t] \in {post[c].owner, NoOwner}
    /\ post[c].at = "purge" => post[c].tokens \subseteq gone \cup refused \cup post[c].late

DevicesInv ==
    /\ DevicesTypeOK
    /\ \A t \in Tokens : TokenSound(t)
    /\ \A c \in Posts : PostSound(c)

LEMMA PostTyped ==
    ASSUME DevicesTypeOK, NEW c \in Posts
    PROVE  /\ post[c] \in Post
           /\ post[c].owner \in Owners \cup {NoOwner}
           /\ post[c].tokens \subseteq Tokens
           /\ post[c].late \subseteq Tokens
BY DEF DevicesTypeOK, Post

LEMMA DeviceTyped ==
    ASSUME DevicesTypeOK, NEW t \in Tokens
    PROVE  /\ device[t] \in Device
           /\ device[t].owner \in Owners \cup {NoOwner}
           /\ device[t].live \in BOOLEAN
BY DEF DevicesTypeOK, Device

LEMMA LateTyped ==
    ASSUME NEW r \in Post, NEW X \in SUBSET Tokens
    PROVE  LET q == [r EXCEPT !.late = @ \cup X] IN
           /\ q \in Post
           /\ q.at = r.at /\ q.owner = r.owner /\ q.tokens = r.tokens
           /\ q.late = r.late \cup X
BY DEF Post

LEMMA DevicesInvInit == DevicesInit => DevicesInv
BY DEF DevicesInit, DevicesInv, DevicesTypeOK, TokenSound, PostSound, Device, Post,
       NoDevice, NoPost

\* What a call reads is true of the rows as they are.
LEMMA ReadIsSound ==
    ASSUME DevicesInv, NEW c \in Posts, NEW u \in Owners,
           NEW at \in {"register", "unregister", "push"},
           NEW tokens \in SUBSET Tokens, NEW found \in BOOLEAN,
           Reads(c, at, u, tokens, found),
           at = "unregister" => \A t \in tokens : home[t] = u
    PROVE  DevicesInv'
<1>1. /\ UNCHANGED <<device, gone, home, crossed, refused>>
      /\ post' = [post EXCEPT ![c] = [at |-> at, owner |-> u, tokens |-> tokens,
                                      found |-> found, late |-> {}]]
    BY DEF Reads
<1>2. post \in [Posts -> Post]
    BY DEF DevicesInv, DevicesTypeOK
<1>3. post'[c] = [at |-> at, owner |-> u, tokens |-> tokens, found |-> found, late |-> {}]
    BY <1>1, <1>2
<1>4. post'[c] \in Post
    BY <1>3 DEF Post
<1>5. post' \in [Posts -> Post]
    BY <1>1, <1>2, <1>4
<1>6. ASSUME NEW d \in Posts PROVE PostSound(d)'
    <2>1. CASE d = c
        BY <2>1, <1>1, <1>3 DEF PostSound
    <2>2. CASE d # c
        <3>1. post'[d] = post[d]
            BY <2>2, <1>1, <1>2
        <3> QED
            BY <3>1, <1>1 DEF PostSound, DevicesInv
    <2> QED
        BY <2>1, <2>2
<1> QED
    BY <1>1, <1>5, <1>6 DEF DevicesInv, DevicesTypeOK, TokenSound

\* Whoever signs in tells every other call that has read the same tokens.
LEMMA SignInIsKnown ==
    ASSUME DevicesInv, NEW c \in Posts, NEW tokens \in SUBSET Tokens,
           SignedIn(c, tokens), gone' = gone,
           \A t \in Tokens \ tokens : home'[t] = home[t]
    PROVE  /\ post' \in [Posts -> Post]
           /\ crossed' \subseteq Tokens /\ refused' \subseteq Tokens
           /\ \A d \in Posts : PostSound(d)'
<1>1. /\ \A d \in Posts \ {c} :
             post'[d] = [post[d] EXCEPT !.late = @ \cup (tokens \cap post[d].tokens)]
      /\ post'[c] = NoPost
      /\ crossed' = crossed \ tokens /\ refused' = refused \ tokens
    BY DEF SignedIn
<1>2. ASSUME NEW d \in Posts \ {c}
      PROVE  /\ post'[d] \in Post
             /\ post'[d].at = post[d].at
             /\ post'[d].owner = post[d].owner
             /\ post'[d].tokens = post[d].tokens
             /\ post'[d].late = post[d].late \cup (tokens \cap post[d].tokens)
    <2>1. PICK r \in Post : r = post[d]
        BY PostTyped DEF DevicesInv
    <2>2. PICK X \in SUBSET Tokens : X = tokens \cap post[d].tokens
        OBVIOUS
    <2>3. post'[d] = [r EXCEPT !.late = @ \cup X]
        BY <1>1, <2>1, <2>2
    <2> QED
        BY <2>1, <2>2, <2>3, LateTyped
<1>3. post'[c] \in Post /\ PostSound(c)'
    BY <1>1 DEF NoPost, Post, PostSound
<1>4. post' \in [Posts -> Post]
    BY <1>2, <1>3 DEF SignedIn
<1>5. ASSUME NEW d \in Posts \ {c} PROVE PostSound(d)'
    <2>1. PostSound(d) /\ post[d].tokens \subseteq Tokens
        BY PostTyped DEF DevicesInv
    <2> QED
        BY <2>1, <1>1, <1>2 DEF PostSound
<1>6. crossed' \subseteq Tokens /\ refused' \subseteq Tokens
    BY <1>1 DEF DevicesInv, DevicesTypeOK
<1> QED
    BY <1>3, <1>4, <1>5, <1>6

\* Whoever silences the tokens it has read silences none that it should not, or
\* crosses with a sign-in.
LEMMA SilenceIsSound ==
    ASSUME DevicesInv, NEW c \in Posts, Silenced(c),
           home' \in [Tokens -> Owners \cup {NoOwner}],
           \A t \in Tokens : home'[t] = home[t] \/ home'[t] = NoOwner,
           \A t \in Tokens \ post[c].tokens : home'[t] = home[t],
           \A t \in post[c].tokens :
              t \in gone \cup refused \cup post[c].late \/ home'[t] = NoOwner
    PROVE  DevicesInv'
<1>0. /\ DevicesTypeOK
      /\ device \in [Tokens -> Device] /\ gone \subseteq Tokens
      /\ post \in [Posts -> Post] /\ crossed \subseteq Tokens
      /\ \A t \in Tokens : TokenSound(t)
      /\ \A d \in Posts : PostSound(d)
    BY DEF DevicesInv, DevicesTypeOK
<1>1. PICK written \in SUBSET Tokens : written = post[c].tokens
    BY <1>0, PostTyped
<1>2. /\ device' = [t \in Tokens |->
             IF t \in written THEN [device[t] EXCEPT !.live = FALSE] ELSE device[t]]
      /\ post' = [post EXCEPT ![c] = NoPost]
      /\ crossed' = crossed \cup (written \cap post[c].late)
      /\ UNCHANGED <<gone, refused>>
    BY <1>1 DEF Silenced
<1>3. NoPost \in Post /\ NoPost.at = "idle"
    BY DEF NoPost, Post
<1>4. device' \in [Tokens -> Device] /\ post' \in [Posts -> Post] /\ crossed' \subseteq Tokens
    BY <1>0, <1>2, <1>3 DEF Device
<1>5. ASSUME NEW t \in Tokens PROVE TokenSound(t)'
    <2>1. CASE t \notin written
        <3>1. device'[t] = device[t] /\ home'[t] = home[t] /\ crossed \subseteq crossed'
            BY <1>1, <1>2, <2>1
        <3> QED
            BY <1>0, <1>2, <3>1 DEF TokenSound
    <2>2. CASE t \in written
        <3>1. device'[t].live = FALSE
            BY <1>0, <1>2, <2>2, DeviceTyped DEF Device
        <3> QED
            BY <1>1, <1>2, <2>2, <3>1 DEF TokenSound
    <2> QED
        BY <2>1, <2>2
<1>6. ASSUME NEW d \in Posts PROVE PostSound(d)'
    <2>1. CASE d = c
        BY <1>0, <1>2, <1>3, <2>1 DEF PostSound
    <2>2. CASE d # c
        <3>1. post'[d] = post[d] /\ PostSound(d) /\ post[d].tokens \subseteq Tokens
            BY <1>0, <1>2, <2>2, PostTyped
        <3>2. /\ gone' = gone /\ refused' = refused
              /\ \A t \in Tokens : home'[t] = home[t] \/ home'[t] = NoOwner
            BY <1>2
        <3> QED
            BY ONLY <3>1, <3>2, NoOwnerAssumption DEF PostSound
    <2> QED
        BY <2>1, <2>2
<1> QED
    BY <1>0, <1>2, <1>4, <1>5, <1>6 DEF DevicesInv, DevicesTypeOK

LEMMA DevicesInvNext == DevicesInv /\ [DevicesNext]_deviceVars => DevicesInv'
<1> SUFFICES ASSUME DevicesInv, [DevicesNext]_deviceVars
             PROVE  DevicesInv'
    OBVIOUS
<1>0. /\ DevicesTypeOK
      /\ device \in [Tokens -> Device] /\ gone \subseteq Tokens
      /\ post \in [Posts -> Post]
      /\ home \in [Tokens -> Owners \cup {NoOwner}]
      /\ crossed \subseteq Tokens /\ refused \subseteq Tokens
      /\ \A t \in Tokens : TokenSound(t)
      /\ \A c \in Posts : PostSound(c)
    BY DEF DevicesInv, DevicesTypeOK
<1>1. CASE UNCHANGED deviceVars
    BY <1>1 DEF deviceVars, DevicesInv, DevicesTypeOK, TokenSound, PostSound
<1>2. ASSUME NEW c \in Posts, ReadForRegister(c) PROVE DevicesInv'
    <2> PICK u \in Owners, t \in Tokens \ gone : Reads(c, "register", u, {t}, device[t] # NoDevice)
        BY <1>2 DEF ReadForRegister
    <2>1. PICK found \in BOOLEAN : found = (device[t] # NoDevice)
        OBVIOUS
    <2> QED
        BY <2>1, ReadIsSound
<1>3. ASSUME NEW c \in Posts, RegisterDevice(c) PROVE DevicesInv'
    <2>1. PICK u \in Owners \cup {NoOwner} : u = post[c].owner
        BY <1>0, PostTyped
    <2>2. PICK written \in SUBSET Tokens :
               written = {t \in post[c].tokens : post[c].found \/ device[t] = NoDevice}
        BY <1>0, PostTyped
    <2>3. /\ device' = [t \in Tokens |->
                 IF t \in written THEN [owner |-> u, live |-> TRUE] ELSE device[t]]
          /\ home' = [t \in Tokens |-> IF t \in written THEN u ELSE home[t]]
          /\ SignedIn(c, written) /\ gone' = gone
        BY <1>3, <2>1, <2>2 DEF RegisterDevice
    <2>4. device' \in [Tokens -> Device] /\ home' \in [Tokens -> Owners \cup {NoOwner}]
        BY <1>0, <2>3 DEF Device
    <2>5. ASSUME NEW t \in Tokens PROVE TokenSound(t)'
        BY <1>0, <2>3 DEF TokenSound, SignedIn
    <2>6. \A t \in Tokens \ written : home'[t] = home[t]
        BY <2>3
    <2> QED
        BY <1>0, <2>3, <2>4, <2>5, <2>6, SignInIsKnown DEF DevicesInv, DevicesTypeOK
<1>4. ASSUME NEW c \in Posts, ReadForUnregister(c) PROVE DevicesInv'
    <2> PICK u \in Owners : \E t \in LiveOf(u) : Reads(c, "unregister", u, {t}, TRUE)
        BY <1>4 DEF ReadForUnregister
    <2> PICK t \in LiveOf(u) : Reads(c, "unregister", u, {t}, TRUE)
        OBVIOUS
    <2>1. t \in Tokens /\ home[t] = u
        BY <1>0 DEF LiveOf, TokenSound
    <2> QED
        BY <2>1, ReadIsSound
<1>5. ASSUME NEW c \in Posts, UnregisterDevice(c) PROVE DevicesInv'
    <2>1. PICK u \in Owners \cup {NoOwner} : u = post[c].owner
        BY <1>0, PostTyped
    <2>2. PICK written \in SUBSET Tokens : written = post[c].tokens
        BY <1>0, PostTyped
    <2>3. /\ home' = [t \in Tokens |->
                 IF t \in written /\ home[t] = u THEN NoOwner ELSE home[t]]
          /\ Silenced(c) /\ post[c].at = "unregister"
        BY <1>5, <2>1, <2>2 DEF UnregisterDevice
    <2>4. /\ home' \in [Tokens -> Owners \cup {NoOwner}]
          /\ \A t \in Tokens : home'[t] = home[t] \/ home'[t] = NoOwner
          /\ \A t \in Tokens \ written : home'[t] = home[t]
        BY <1>0, <2>3
    <2>5. \A t \in written : t \in post[c].late \/ home'[t] = NoOwner
        BY <1>0, <2>1, <2>2, <2>3 DEF PostSound
    <2> QED
        BY <2>2, <2>3, <2>4, <2>5, SilenceIsSound
<1>6. ASSUME NEW c \in Posts, NotifyUser(c) PROVE DevicesInv'
    <2> PICK u \in Owners : LiveOf(u) # {} /\ Reads(c, "push", u, LiveOf(u), TRUE)
        BY <1>6 DEF NotifyUser
    <2>1. PICK tokens \in SUBSET Tokens : tokens = LiveOf(u)
        BY DEF LiveOf
    <2> QED
        BY <2>1, ReadIsSound
<1>7. ASSUME NEW c \in Posts, Multicast(c) PROVE DevicesInv'
    <2>1. PICK stale \in SUBSET post[c].tokens :
              /\ post' = [post EXCEPT ![c] =
                     IF stale = {} THEN NoPost
                     ELSE [post[c] EXCEPT !.at = "purge", !.tokens = stale]]
              /\ refused' = refused \cup (stale \ gone)
              /\ UNCHANGED <<device, gone, home, crossed>>
        BY <1>7 DEF Multicast
    <2>2. stale \subseteq Tokens /\ refused' \subseteq Tokens
        BY <1>0, <2>1, PostTyped
    <2>3. PICK q \in Post : /\ post' = [post EXCEPT ![c] = q]
                            /\ q.at \in {"idle", "purge"}
                            /\ q.at = "purge" => q.tokens = stale
        <3>1. CASE stale = {}
            <4>1. NoPost \in Post /\ NoPost.at = "idle"
                BY DEF NoPost, Post
            <4> QED
                BY <2>1, <3>1, <4>1
        <3>2. CASE stale # {}
            <4> DEFINE p == [post[c] EXCEPT !.at = "purge", !.tokens = stale]
            <4>1. p \in Post /\ p.at = "purge" /\ p.tokens = stale
                BY <1>0, <2>2 DEF Post
            <4>2. post' = [post EXCEPT ![c] = p]
                BY <2>1, <3>2
            <4> HIDE DEF p
            <4> QED
                BY <4>1, <4>2
        <3> QED
            BY <3>1, <3>2
    <2>4. post' \in [Posts -> Post] /\ PostSound(c)'
        <3>1. post'[c] = q
            BY <1>0, <2>3
        <3> QED
            BY <1>0, <2>1, <2>3, <3>1 DEF PostSound
    <2>5. ASSUME NEW d \in Posts, d # c PROVE PostSound(d)'
        <3>1. post'[d] = post[d]
            BY <2>3, <2>5
        <3> QED
            BY <1>0, <2>1, <3>1 DEF PostSound
    <2> QED
        BY <1>0, <2>1, <2>2, <2>4, <2>5 DEF DevicesInv, DevicesTypeOK, TokenSound
<1>8. ASSUME NEW c \in Posts, PurgeStale(c) PROVE DevicesInv'
    <2>1. Silenced(c) /\ home' = home /\ post[c].at = "purge"
        BY <1>8 DEF PurgeStale
    <2>2. \A t \in post[c].tokens : t \in gone \cup refused \cup post[c].late
        BY <1>0, <2>1 DEF PostSound
    <2> QED
        BY <1>0, <2>1, <2>2, SilenceIsSound
<1>9. CASE Uninstalled
    BY <1>0, <1>9 DEF Uninstalled, DevicesInv, DevicesTypeOK, TokenSound, PostSound
<1> QED
    BY <1>1, <1>2, <1>3, <1>4, <1>5, <1>6, <1>7, <1>8, <1>9 DEF DevicesNext

\* An installation rings for no other account than the one that signed in on it
\* last, whatever calls overlap; and for that one until it signs off or is gone, but
\* for the tokens that FCM refuses and the calls that cross a sign-in
\* (devices.service.ts:14, 39; fcm.service.ts:204, 211).
THEOREM RingsWhereItShould == DevicesSpec => []RingsForItsOwner
<1>1. DevicesInv => RingsForItsOwner
    BY DEF DevicesInv, TokenSound, RingsForItsOwner
<1> QED
    BY DevicesInvInit, DevicesInvNext, <1>1, PTL DEF DevicesSpec

-----------------------------------------------------------------------------
(* The tokens of the back office.                                          *)

\* The account has all that the first login gives it.
Complete ==
    /\ web.own /\ web.secret /\ web.enabled /\ ~web.temporary
    /\ \E b \in BackupCodes : backup[b] # "none"

\* A token is there for a step only if the steps before it were written.
Earned(p) ==
    CASE p = "secret" -> web.own
      [] p = "check" -> web.own /\ web.secret
      [] p \in {"twofa", "reset"} -> Complete
      [] OTHER -> TRUE

\* A token that is open, or not issued yet, has not served.
ChallengeSound(i) ==
    /\ served[i] <= 1
    /\ challenge[i].open => challenge[i].purpose # "none"
    /\ challenge[i].open \/ challenge[i].purpose = "none" => served[i] = 0
    /\ Earned(challenge[i].purpose)

\* A call that writes holds a token that it has consumed and nobody else holds.
TabSound(t) ==
    /\ tab[t].at \in {"consume", "write"} =>
           /\ tab[t].token \in Challenges /\ tab[t].purpose # "none"
           /\ challenge[tab[t].token].purpose = tab[t].purpose
    /\ tab[t].at = "spend" =>
           \/ tab[t].purpose = "reset" /\ Complete
           \/ /\ tab[t].purpose = "twofa" /\ tab[t].token \in Challenges
              /\ challenge[tab[t].token].purpose = "twofa"
    /\ tab[t].at = "write" =>
           ~challenge[tab[t].token].open /\ served[tab[t].token] = 0
    /\ tab[t].at = "issue" =>
           CASE tab[t].purpose = "password" -> web.own
             [] tab[t].purpose = "secret" -> web.own /\ web.secret
             [] OTHER -> Complete

Alone(t, u) ==
    tab[t].at = "write" /\ tab[u].at = "write" /\ t # u => tab[t].token # tab[u].token

WebInv ==
    /\ WebTypeOK
    /\ web.active => Complete
    /\ \A i \in Challenges : ChallengeSound(i)
    /\ \A t \in Tabs : TabSound(t)
    /\ \A t, u \in Tabs : Alone(t, u)

LEMMA WebInvInit == WebInit => WebInv
BY VersionAssumption DEF WebInit, WebInv, WebTypeOK, WebUser, ChallengeRow, Tab, Closed,
   ChallengeSound, TabSound, Alone, Earned

\* The steps of the first login are never undone.
Richer ==
    /\ web' \in WebUser
    /\ backup' \in [BackupCodes -> {"none", "unused", "used"}]
    /\ web.own => web'.own
    /\ web.secret => web'.secret
    /\ web.enabled => web'.enabled
    /\ web'.temporary => web.temporary
    /\ \A b \in BackupCodes : backup[b] # "none" => backup'[b] # "none"

LEMMA EarnedStays ==
    ASSUME Richer
    PROVE  /\ Complete => Complete'
           /\ \A p : Earned(p) => Earned(p)'
BY DEF Richer, Complete, Earned

LEMMA TabTyped ==
    ASSUME WebTypeOK, NEW t \in Tabs
    PROVE  /\ tab[t] \in Tab
           /\ tab[t].at \in {"idle", "spend", "consume", "write", "issue"}
           /\ tab[t].purpose \in Purposes \cup {"none"}
           /\ tab[t].token \in Challenges \cup {None}
           /\ tab[t].code \in BackupCodes \cup {None}
BY DEF WebTypeOK, Tab

LEMMA ChallengeTyped ==
    ASSUME WebTypeOK, NEW i \in Challenges
    PROVE  /\ challenge[i] \in ChallengeRow
           /\ challenge[i].purpose \in Purposes \cup {"none"}
           /\ challenge[i].open \in BOOLEAN
           /\ served[i] \in Nat
BY DEF WebTypeOK, ChallengeRow

\* One call changes what it holds: the others keep theirs, and what it holds is as
\* sound as it was or has nothing to do with a token any more.
LEMMA OthersKeepTheirs ==
    ASSUME WebInv, Richer, NEW t \in Tabs, NEW r \in Tab,
           tab' = [tab EXCEPT ![t] = r],
           \A i \in Challenges : challenge'[i].purpose = challenge[i].purpose
                                 \/ challenge[i].purpose = "none",
           \A u \in Tabs \ {t} : tab[u].at = "write" =>
               /\ challenge'[tab[u].token].open = challenge[tab[u].token].open
               /\ served'[tab[u].token] = served[tab[u].token]
               /\ r.at = "write" => r.token # tab[u].token
    PROVE  /\ tab' \in [Tabs -> Tab]
           /\ tab'[t] = r
           /\ \A u \in Tabs \ {t} : TabSound(u)'
           /\ \A u, v \in Tabs : Alone(u, v)'
<1>1. tab \in [Tabs -> Tab] /\ WebTypeOK
    BY DEF WebInv, WebTypeOK
<1>2. tab' \in [Tabs -> Tab] /\ tab'[t] = r /\ \A u \in Tabs \ {t} : tab'[u] = tab[u]
    BY <1>1
<1>3. ASSUME NEW u \in Tabs \ {t} PROVE TabSound(u)'
    <2>1. tab'[u] = tab[u] /\ TabSound(u)
        BY <1>2 DEF WebInv
    <2> QED
        BY <2>1, EarnedStays DEF TabSound, Richer
<1>4. ASSUME NEW u \in Tabs, NEW v \in Tabs PROVE Alone(u, v)'
    BY <1>2, <1>4 DEF WebInv, Alone
<1> QED
    BY <1>2, <1>3, <1>4

\* Nothing but the call itself changes: it may hold a token that it only read.
LEMMA OnlyTheCall ==
    ASSUME WebInv, Richer, UNCHANGED <<web, challenge, served>>,
           NEW t \in Tabs, NEW r \in Tab,
           tab' = [tab EXCEPT ![t] = r], r.at # "write",
           r.at = "consume" => /\ r.token \in Challenges /\ r.purpose # "none"
                               /\ challenge[r.token].purpose = r.purpose,
           r.at = "spend" => \/ r.purpose = "reset" /\ Complete
                             \/ /\ r.purpose = "twofa" /\ r.token \in Challenges
                                /\ challenge[r.token].purpose = "twofa",
           r.at = "issue" => r.purpose = "reset" /\ Complete
    PROVE  WebInv'
<1>1. /\ tab' \in [Tabs -> Tab] /\ tab'[t] = r
      /\ \A u \in Tabs \ {t} : TabSound(u)'
      /\ \A u, v \in Tabs : Alone(u, v)'
    BY OthersKeepTheirs
<1>2. TabSound(t)'
    BY <1>1, EarnedStays DEF TabSound
<1>3. \A i \in Challenges : ChallengeSound(i)'
    BY EarnedStays DEF ChallengeSound, WebInv
<1>4. WebTypeOK' /\ (web'.active => Complete')
    BY <1>1, EarnedStays DEF Richer, WebInv, WebTypeOK
<1> QED
    BY <1>1, <1>2, <1>3, <1>4 DEF WebInv

\* A token is issued for a step that was earned.
LEMMA IssueIsSound ==
    ASSUME WebInv, Richer, UNCHANGED <<web, served>>,
           NEW p \in Purposes, Issue(p), Earned(p),
           NEW t \in Tabs, tab' = tab \/ Close(t)
    PROVE  WebInv'
<1>0. WebTypeOK /\ challenge \in [Challenges -> ChallengeRow] /\ tab \in [Tabs -> Tab]
    BY DEF WebInv, WebTypeOK
<1>1. PICK i \in Challenges : /\ challenge[i].purpose = "none"
                              /\ challenge' = [challenge EXCEPT ![i] = [purpose |-> p, open |-> TRUE]]
    BY DEF Issue, Issued
<1>2. /\ challenge' \in [Challenges -> ChallengeRow]
      /\ challenge'[i].purpose = p /\ challenge'[i].open = TRUE
      /\ \A j \in Challenges \ {i} : challenge'[j] = challenge[j]
    BY <1>0, <1>1 DEF ChallengeRow
<1>3. ASSUME NEW u \in Tabs,
             \/ tab[u].at \in {"consume", "write"}
             \/ tab[u].at = "spend" /\ tab[u].purpose = "twofa"
      PROVE  tab[u].token \in Challenges \ {i}
    BY <1>1, <1>3 DEF WebInv, TabSound
<1>4. \A j \in Challenges : ChallengeSound(j)'
    BY <1>1, <1>2, EarnedStays DEF ChallengeSound, WebInv, Purposes
<1>5. /\ tab' \in [Tabs -> Tab]
      /\ \A u \in Tabs : TabSound(u)'
      /\ \A u, v \in Tabs : Alone(u, v)'
    <2>1. CASE tab' = tab
        <3>1. ASSUME NEW u \in Tabs PROVE TabSound(u)'
            BY <1>2, <1>3, <2>1, EarnedStays DEF TabSound, WebInv
        <3> QED
            BY <1>0, <2>1, <3>1 DEF WebInv, Alone
    <2>2. CASE Close(t)
        <3>1. Closed \in Tab /\ Closed.at = "idle"
            BY DEF Closed, Tab
        <3>2. tab' = [tab EXCEPT ![t] = Closed]
            BY <2>2 DEF Close
        <3>3. \A u \in Tabs \ {t} : tab[u].at = "write" =>
                  /\ challenge'[tab[u].token].open = challenge[tab[u].token].open
                  /\ served'[tab[u].token] = served[tab[u].token]
            BY <1>2, <1>3
        <3>4. \A j \in Challenges : challenge'[j].purpose = challenge[j].purpose
                                    \/ challenge[j].purpose = "none"
            BY <1>1, <1>2
        <3>5. /\ tab' \in [Tabs -> Tab] /\ tab'[t] = Closed
              /\ \A u \in Tabs \ {t} : TabSound(u)'
              /\ \A u, v \in Tabs : Alone(u, v)'
            BY <3>1, <3>2, <3>3, <3>4, OthersKeepTheirs
        <3>6. TabSound(t)'
            BY <3>1, <3>5 DEF TabSound
        <3> QED
            BY <3>5, <3>6
    <2> QED
        BY <2>1, <2>2
<1>6. WebTypeOK' /\ (web'.active => Complete')
    BY <1>0, <1>2, <1>5, EarnedStays DEF Richer, WebInv, WebTypeOK
<1> QED
    BY <1>4, <1>5, <1>6 DEF WebInv

\* The conditional write lets one call hold the token.
LEMMA ConsumeIsSound ==
    ASSUME WebInv, Richer, UNCHANGED <<web, served>>,
           NEW t \in Tabs, NEW r \in Tab, NEW i \in Challenges,
           tab' = [tab EXCEPT ![t] = r],
           r.at = "write", r.token = i, r.purpose = challenge[i].purpose,
           challenge[i].open,
           challenge' = [challenge EXCEPT ![i].open = FALSE]
    PROVE  WebInv'
<1>0. WebTypeOK /\ challenge \in [Challenges -> ChallengeRow]
    BY DEF WebInv, WebTypeOK
<1>1. /\ challenge' \in [Challenges -> ChallengeRow]
      /\ challenge'[i].open = FALSE
      /\ \A j \in Challenges : challenge'[j].purpose = challenge[j].purpose
      /\ \A j \in Challenges \ {i} : challenge'[j] = challenge[j]
    BY <1>0 DEF ChallengeRow
<1>2. ASSUME NEW u \in Tabs, tab[u].at = "write" PROVE tab[u].token \in Challenges \ {i}
    BY <1>2 DEF WebInv, TabSound
<1>3. /\ tab' \in [Tabs -> Tab] /\ tab'[t] = r
      /\ \A u \in Tabs \ {t} : TabSound(u)'
      /\ \A u, v \in Tabs : Alone(u, v)'
    <2>1. \A u \in Tabs \ {t} : tab[u].at = "write" =>
              /\ challenge'[tab[u].token].open = challenge[tab[u].token].open
              /\ served'[tab[u].token] = served[tab[u].token]
              /\ r.at = "write" => r.token # tab[u].token
        BY <1>1, <1>2
    <2>2. \A j \in Challenges : challenge'[j].purpose = challenge[j].purpose
                                \/ challenge[j].purpose = "none"
        BY <1>1
    <2> QED
        BY <2>1, <2>2, OthersKeepTheirs, ZenonT(30)
<1>4. ChallengeSound(i)
    BY DEF WebInv
<1>5. TabSound(t)'
    BY <1>1, <1>3, <1>4 DEF TabSound, ChallengeSound
<1>6. \A j \in Challenges : ChallengeSound(j)'
    BY <1>1, EarnedStays DEF ChallengeSound, WebInv
<1>7. WebTypeOK' /\ (web'.active => Complete')
    BY <1>0, <1>1, <1>3, EarnedStays DEF Richer, WebInv, WebTypeOK
<1> QED
    BY <1>3, <1>5, <1>6, <1>7 DEF WebInv

\* A consumed token serves once, and the call holds it no longer.
LEMMA ServeIsSound ==
    ASSUME WebInv, Richer, UNCHANGED challenge,
           web'.active => Complete',
           NEW t \in Tabs, NEW r \in Tab,
           tab[t].at = "write", Serve(t),
           tab' = [tab EXCEPT ![t] = r],
           r.at \in {"idle", "issue"},
           r.at = "issue" => \/ r.purpose = "password" /\ web'.own
                             \/ r.purpose = "secret" /\ web'.own /\ web'.secret
    PROVE  WebInv'
<1>0. WebTypeOK /\ served \in [Challenges -> Nat]
    BY DEF WebInv, WebTypeOK
<1>1. PICK i \in Challenges : i = tab[t].token
    BY DEF WebInv, TabSound
<1>2. ~challenge[i].open /\ challenge[i].purpose # "none" /\ served[i] = 0
    BY <1>1 DEF WebInv, TabSound
<1>3. served' \in [Challenges -> Nat] /\ served'[i] = 1 /\ \A j \in Challenges \ {i} : served'[j] = served[j]
    BY <1>0, <1>1, <1>2 DEF Serve
<1>4. ASSUME NEW u \in Tabs \ {t}, tab[u].at = "write" PROVE tab[u].token \in Challenges \ {i}
    BY <1>1, <1>4 DEF WebInv, TabSound, Alone
<1>5. /\ tab' \in [Tabs -> Tab] /\ tab'[t] = r
      /\ \A u \in Tabs \ {t} : TabSound(u)'
      /\ \A u, v \in Tabs : Alone(u, v)'
    BY <1>3, <1>4, OthersKeepTheirs
<1>6. TabSound(t)'
    BY <1>5 DEF TabSound
<1>7. \A j \in Challenges : ChallengeSound(j)'
    BY <1>2, <1>3, EarnedStays DEF ChallengeSound, WebInv
<1>8. WebTypeOK'
    BY <1>0, <1>3, <1>5 DEF Richer, WebTypeOK
<1> QED
    BY <1>5, <1>6, <1>7, <1>8 DEF WebInv

LEMMA StillRicher ==
    ASSUME WebInv, web' = web,
           \/ backup' = backup
           \/ \E t \in Tabs : SpendCode(t)
    PROVE  Richer
<1>1. WebTypeOK /\ web \in WebUser /\ backup \in [BackupCodes -> {"none", "unused", "used"}]
    BY DEF WebInv, WebTypeOK
<1>2. CASE backup' = backup
    BY <1>1, <1>2 DEF Richer
<1>3. ASSUME NEW t \in Tabs, SpendCode(t) PROVE Richer
    BY <1>1, <1>3 DEF Richer, SpendCode
<1> QED
    BY <1>2, <1>3

\* What a call has shown it knows: a TOTP code, or a backup code.
LEMMA ProvenCall ==
    ASSUME NEW t \in Tabs, NEW p \in Purposes, NEW i \in Challenges \cup {None},
           NEW at \in {"consume", "issue"}, Proven(t, p, i, at)
    PROVE  \E r \in Tab : /\ tab' = [tab EXCEPT ![t] = r]
                          /\ r.at \in {at, "spend"} /\ r.purpose = p /\ r.token = i
<1>1. PICK b \in BackupCodes \cup {None}, a \in {at, "spend"} :
          tab' = [tab EXCEPT ![t] = [at |-> a, purpose |-> p, token |-> i, code |-> b]]
    BY DEF Proven
<1>2. PICK r : r = [at |-> a, purpose |-> p, token |-> i, code |-> b]
    OBVIOUS
<1>3. r \in Tab /\ r.at = a /\ r.purpose = p /\ r.token = i
    BY <1>2 DEF Tab
<1> QED
    BY <1>1, <1>2, <1>3

\* A call that serves goes on to issue the next token, or ends.
LEMMA GoesOn ==
    ASSUME WebTypeOK, NEW t \in Tabs, tab' = [tab EXCEPT ![t].at = "issue"]
    PROVE  \E r \in Tab : /\ tab' = [tab EXCEPT ![t] = r]
                          /\ r.at = "issue" /\ r.purpose = tab[t].purpose
<1>1. PICK q \in Tab : q = tab[t]
    BY TabTyped
<1>2. PICK r : r = [q EXCEPT !.at = "issue"]
    OBVIOUS
<1>3. r \in Tab /\ r.at = "issue" /\ r.purpose = q.purpose
    BY <1>2 DEF Tab
<1>4. tab' = [tab EXCEPT ![t] = r]
    BY <1>1, <1>2
<1> QED
    BY <1>1, <1>3, <1>4

LEMMA ClosedCall == Closed \in Tab /\ Closed.at = "idle"
BY DEF Closed, Tab

LEMMA WebInvNext == WebInv /\ [WebNext]_webVars => WebInv'
<1> SUFFICES ASSUME WebInv, [WebNext]_webVars
             PROVE  WebInv'
    OBVIOUS
<1>0. /\ WebTypeOK /\ web \in WebUser
      /\ backup \in [BackupCodes -> {"none", "unused", "used"}]
    BY DEF WebInv, WebTypeOK
<1>1. CASE UNCHANGED webVars
    <2>1. Richer
        BY <1>0, <1>1 DEF webVars, Richer
    <2> QED
        BY <1>1, <2>1, EarnedStays DEF webVars, WebInv, WebTypeOK, ChallengeSound, TabSound, Alone
<1>2. ASSUME NEW t \in Tabs, Login(t) PROVE WebInv'
    BY <1>2, IssueIsSound, StillRicher DEF Login, WebInv, Earned, Purposes
<1>3. ASSUME NEW t \in Tabs, FirstLogin(t) PROVE WebInv'
    BY <1>3, IssueIsSound, StillRicher DEF FirstLogin, Earned, Purposes
<1>4. ASSUME NEW t \in Tabs, VerifyPasswordReset(t) PROVE WebInv'
    <2>1. Complete /\ UNCHANGED <<web, challenge, backup, served>>
        BY <1>4 DEF VerifyPasswordReset, CanResetPassword, WebInv
    <2>2. PICK r \in Tab : /\ tab' = [tab EXCEPT ![t] = r]
                           /\ r.at \in {"issue", "spend"} /\ r.purpose = "reset"
        BY <1>4, ProvenCall DEF VerifyPasswordReset, Purposes
    <2> QED
        BY <2>1, <2>2, OnlyTheCall, StillRicher
<1>5. ASSUME NEW t \in Tabs, IssueReset(t) PROVE WebInv'
    <2>1. /\ Complete /\ UNCHANGED <<web, served>>
          /\ UNCHANGED backup /\ Issue("reset") /\ Close(t)
        BY <1>5 DEF IssueReset, WebInv, TabSound
    <2> QED
        BY <2>1, IssueIsSound, StillRicher DEF Earned, Purposes
<1>6. ASSUME NEW t \in Tabs, ConsumeFirst(t) PROVE WebInv'
    <2>1. PICK i \in Challenges, p \in {"password", "secret", "reset"} :
              /\ Consumable(i, p)
              /\ challenge' = [challenge EXCEPT ![i].open = FALSE]
              /\ tab' = [tab EXCEPT ![t] =
                     [at |-> "write", purpose |-> p, token |-> i, code |-> None]]
        BY <1>6 DEF ConsumeFirst
    <2>2. PICK r : r = [at |-> "write", purpose |-> p, token |-> i, code |-> None]
        OBVIOUS
    <2>3. r \in Tab /\ r.at = "write" /\ r.purpose = p /\ r.token = i
        BY <2>2 DEF Tab, Purposes
    <2>4. Richer /\ UNCHANGED <<web, served>>
        BY <1>6, StillRicher DEF ConsumeFirst
    <2> QED
        BY <2>1, <2>2, <2>3, <2>4, ConsumeIsSound DEF Consumable, Holds
<1>7. ASSUME NEW t \in Tabs, ReadForCheck(t) PROVE WebInv'
    <2>1. PICK i \in Challenges :
              /\ Holds(i, "check")
              /\ tab' = [tab EXCEPT ![t] =
                     [at |-> "consume", purpose |-> "check", token |-> i, code |-> None]]
        BY <1>7 DEF ReadForCheck
    <2>2. PICK r : r = [at |-> "consume", purpose |-> "check", token |-> i, code |-> None]
        OBVIOUS
    <2>3. r \in Tab /\ r.at = "consume" /\ r.purpose = "check" /\ r.token = i
        BY <2>2 DEF Tab, Purposes
    <2>4. Richer /\ UNCHANGED <<web, challenge, served>>
        BY <1>7, StillRicher DEF ReadForCheck
    <2> QED
        BY <2>1, <2>2, <2>3, <2>4, OnlyTheCall DEF Holds
<1>8. ASSUME NEW t \in Tabs, ReadForTwoFa(t) PROVE WebInv'
    <2>1. PICK i \in Challenges : Holds(i, "twofa") /\ Proven(t, "twofa", i, "consume")
        BY <1>8 DEF ReadForTwoFa
    <2>2. PICK r \in Tab : /\ tab' = [tab EXCEPT ![t] = r]
                           /\ r.at \in {"consume", "spend"} /\ r.purpose = "twofa" /\ r.token = i
        BY <2>1, ProvenCall DEF Purposes
    <2>3. Richer /\ UNCHANGED <<web, challenge, served>>
        BY <1>8, StillRicher DEF ReadForTwoFa
    <2> QED
        BY <2>1, <2>2, <2>3, OnlyTheCall DEF Holds
<1>9. ASSUME NEW t \in Tabs, ConsumeProven(t) PROVE WebInv'
    <2>1. PICK q \in Tab : q = tab[t]
        BY <1>0, TabTyped
    <2>2. PICK i \in Challenges : i = q.token /\ challenge[i].purpose = q.purpose
        BY <1>9, <2>1 DEF ConsumeProven, WebInv, TabSound
    <2>3. Richer /\ UNCHANGED <<web, served>>
        BY <1>9, StillRicher DEF ConsumeProven
    <2>4. CASE Consumable(i, q.purpose)
        <3>1. PICK r : r = [q EXCEPT !.at = "write"]
            OBVIOUS
        <3>2. r \in Tab /\ r.at = "write" /\ r.purpose = q.purpose /\ r.token = i
            BY <2>2, <3>1 DEF Tab
        <3>3. /\ challenge' = [challenge EXCEPT ![i].open = FALSE]
              /\ tab' = [tab EXCEPT ![t].at = "write"]
            BY <1>9, <2>1, <2>2, <2>4 DEF ConsumeProven
        <3>4. tab' = [tab EXCEPT ![t] = r]
            BY <1>0, <2>1, <3>1, <3>3 DEF WebTypeOK
        <3>5. challenge[i].open
            BY <2>4 DEF Consumable, Holds
        <3>6. challenge' = [challenge EXCEPT ![i].open = FALSE]
            BY <3>3
        <3>7. r \in Tab /\ r.at = "write" /\ r.token = i /\ r.purpose = challenge[i].purpose
            BY <2>2, <3>2
        <3> QED
            BY <2>3, <3>4, <3>5, <3>6, <3>7, ConsumeIsSound
    <2>5. CASE ~Consumable(i, q.purpose)
        <3>1. tab' = [tab EXCEPT ![t] = Closed] /\ UNCHANGED challenge
            BY <1>9, <2>1, <2>2, <2>5 DEF ConsumeProven, Close
        <3> QED
            BY <2>3, <3>1, ClosedCall, OnlyTheCall
    <2> QED
        BY <2>4, <2>5
<1>10. ASSUME NEW t \in Tabs, SetOnboardingPassword(t) PROVE WebInv'
    <2>1. /\ tab[t].at = "write" /\ tab[t].purpose = "password" /\ Serve(t)
          /\ UNCHANGED <<challenge, backup>>
          /\ web' = [web EXCEPT !.own = TRUE]
        BY <1>10 DEF SetOnboardingPassword, Writes
    <2>2. Richer /\ web'.own /\ web'.active = web.active
        BY <1>0, <2>1 DEF Richer, WebUser
    <2>3. web'.active => Complete'
        BY <2>2, EarnedStays DEF WebInv
    <2>4. PICK r \in Tab : /\ tab' = [tab EXCEPT ![t] = r]
                           /\ r.at = "issue" /\ r.purpose = "password"
        BY <1>0, <1>10, <2>1, GoesOn DEF SetOnboardingPassword
    <2> QED
        BY <2>1, <2>2, <2>3, <2>4, ServeIsSound
<1>11. ASSUME NEW t \in Tabs, SetupTwoFactor(t) PROVE WebInv'
    <2>1. /\ tab[t].at = "write" /\ tab[t].purpose = "secret" /\ Serve(t)
          /\ UNCHANGED <<challenge, backup>>
          /\ web' = [web EXCEPT !.secret = TRUE]
        BY <1>11 DEF SetupTwoFactor, Writes
    <2>2. Richer /\ web'.secret /\ web'.own = web.own /\ web'.active = web.active
        BY <1>0, <2>1 DEF Richer, WebUser
    <2>3. web'.own
        BY <2>1, <2>2 DEF WebInv, TabSound, ChallengeSound, Earned
    <2>4. web'.active => Complete'
        BY <2>2, EarnedStays DEF WebInv
    <2>5. PICK r \in Tab : /\ tab' = [tab EXCEPT ![t] = r]
                           /\ r.at = "issue" /\ r.purpose = "secret"
        BY <1>0, <1>11, <2>1, GoesOn DEF SetupTwoFactor
    <2> QED
        BY <2>1, <2>2, <2>3, <2>4, <2>5, ServeIsSound
<1>12. ASSUME NEW t \in Tabs, IssueNext(t) PROVE WebInv'
    <2>1. /\ Close(t) /\ UNCHANGED <<web, backup, served>>
          /\ tab[t].at = "issue" /\ tab[t].purpose \in {"password", "secret"}
          /\ Issue(IF tab[t].purpose = "password" THEN "secret" ELSE "check")
        BY <1>12 DEF IssueNext
    <2>2. CASE tab[t].purpose = "password"
        BY <2>1, <2>2, IssueIsSound, StillRicher DEF WebInv, TabSound, Earned, Purposes
    <2>3. CASE tab[t].purpose = "secret"
        BY <2>1, <2>3, IssueIsSound, StillRicher DEF WebInv, TabSound, Earned, Purposes
    <2> QED
        BY <2>1, <2>2, <2>3
<1>13. ASSUME NEW t \in Tabs, VerifyTwoFactorSetup(t) PROVE WebInv'
    <2>1. /\ tab[t].at = "write" /\ tab[t].purpose = "check" /\ Serve(t)
          /\ UNCHANGED challenge
          /\ web' = [web EXCEPT !.enabled = TRUE, !.temporary = FALSE, !.active = TRUE]
          /\ tab' = [tab EXCEPT ![t] = Closed]
        BY <1>13 DEF VerifyTwoFactorSetup, Writes, Close
    <2>2. PICK B \in SUBSET BackupCodes :
              /\ Cardinality(B) = BackupCodeCount
              /\ \A b \in B : backup[b] = "none"
              /\ backup' = [b \in BackupCodes |-> IF b \in B THEN "unused" ELSE backup[b]]
        BY <1>13 DEF VerifyTwoFactorSetup
    <2>3. PICK b \in BackupCodes : backup'[b] # "none"
        <3>1. B # {}
            BY <2>2, FS_EmptySet, BatchAssumption
        <3> QED
            BY <2>2, <3>1
    <2>4. /\ web' \in WebUser
          /\ web'.enabled /\ ~web'.temporary /\ web'.own = web.own /\ web'.secret = web.secret
        BY <1>0, <2>1 DEF WebUser
    <2>5. backup' \in [BackupCodes -> {"none", "unused", "used"}]
        BY <1>0, <2>2
    <2>6. Richer
        BY <2>2, <2>4, <2>5 DEF Richer
    <2>7. web.own /\ web.secret
        BY <2>1 DEF WebInv, TabSound, ChallengeSound, Earned
    <2>8. Complete'
        BY <2>3, <2>4, <2>7 DEF Complete
    <2> QED
        BY <2>1, <2>6, <2>8, ClosedCall, ServeIsSound
<1>14. ASSUME NEW t \in Tabs, OpenWebSession(t) PROVE WebInv'
    <2>1. /\ tab[t].at = "write" /\ Serve(t) /\ tab' = [tab EXCEPT ![t] = Closed]
          /\ UNCHANGED <<web, challenge, backup>>
        BY <1>14 DEF OpenWebSession, Writes, Close
    <2>2. Richer /\ (web'.active => Complete')
        BY <2>1, StillRicher, EarnedStays DEF WebInv
    <2> QED
        BY <2>1, <2>2, ClosedCall, ServeIsSound
<1>15. ASSUME NEW t \in Tabs, ConfirmPasswordReset(t) PROVE WebInv'
    <2>1. /\ tab[t].at = "write" /\ Serve(t) /\ tab' = [tab EXCEPT ![t] = Closed]
          /\ UNCHANGED <<challenge, backup>>
          /\ web.version < MaxVersion
          /\ web' = [web EXCEPT !.own = TRUE, !.version = @ + 1]
        BY <1>15 DEF ConfirmPasswordReset, Writes, Close
    <2>2. web.version + 1 \in 0 .. MaxVersion
        BY <1>0, <2>1, VersionAssumption DEF WebUser
    <2>3. Richer /\ web'.active = web.active
        BY <1>0, <2>1, <2>2 DEF Richer, WebUser
    <2>4. web'.active => Complete'
        BY <2>3, EarnedStays DEF WebInv
    <2> QED
        BY <2>1, <2>3, <2>4, ClosedCall, ServeIsSound
<1>16. ASSUME NEW t \in Tabs, Drop(t) PROVE WebInv'
    BY <1>16, ClosedCall, OnlyTheCall, StillRicher DEF Drop, Close
<1>17. CASE LogoutEverywhere
    <2>1. /\ UNCHANGED <<challenge, backup, tab, served>> /\ web.version < MaxVersion
          /\ web' = [web EXCEPT !.version = @ + 1]
        BY <1>17 DEF LogoutEverywhere
    <2>2. web.version + 1 \in 0 .. MaxVersion
        BY <1>0, <2>1, VersionAssumption DEF WebUser
    <2>3. Richer /\ web'.active = web.active
        BY <1>0, <2>1, <2>2 DEF Richer, WebUser
    <2> QED
        BY <2>1, <2>3, EarnedStays DEF Richer, WebInv, WebTypeOK, ChallengeSound, TabSound, Alone
<1>18. CASE ChallengeExpires
    <2>1. PICK i \in Challenges : challenge' = [challenge EXCEPT ![i].open = FALSE]
        BY <1>18 DEF ChallengeExpires, Issued
    <2>2. UNCHANGED <<web, backup, tab, served>> /\ Richer
        BY <1>18, StillRicher DEF ChallengeExpires
    <2>3. /\ challenge' \in [Challenges -> ChallengeRow]
          /\ \A j \in Challenges : /\ challenge'[j].purpose = challenge[j].purpose
                                   /\ challenge'[j].open => challenge[j].open
        BY <1>0, <2>1 DEF WebTypeOK, ChallengeRow
    <2>4. \A j \in Challenges : ChallengeSound(j)'
        BY <2>2, <2>3, EarnedStays DEF WebInv, ChallengeSound
    <2>5. \A t \in Tabs : TabSound(t)'
        BY <2>2, <2>3, EarnedStays DEF WebInv, TabSound
    <2> QED
        BY <2>2, <2>3, <2>4, <2>5, EarnedStays DEF WebInv, WebTypeOK, Alone
<1>19. CASE AccountDeleted
    <2>1. /\ UNCHANGED <<challenge, backup, tab, served>>
          /\ web' = [web EXCEPT !.deleted = TRUE, !.active = FALSE]
        BY <1>19 DEF AccountDeleted
    <2>2. Richer /\ ~web'.active
        BY <1>0, <2>1 DEF Richer, WebUser
    <2> QED
        BY <2>1, <2>2, EarnedStays DEF Richer, WebInv, WebTypeOK, ChallengeSound, TabSound, Alone
<1>20. ASSUME NEW t \in Tabs, SpendCode(t) PROVE WebInv'
    <2>1. /\ tab[t].at = "spend" /\ UNCHANGED <<web, challenge, served>>
          /\ tab' = [tab EXCEPT ![t].at = IF tab[t].purpose = "reset" THEN "issue" ELSE "consume",
                                ![t].code = None]
        BY <1>20 DEF SpendCode
    <2>2. PICK q \in Tab : q = tab[t]
        BY <1>0, TabTyped
    <2>3. PICK at \in {"issue", "consume"} :
              at = IF q.purpose = "reset" THEN "issue" ELSE "consume"
        OBVIOUS
    <2>4. PICK r \in Tab : /\ r = [[q EXCEPT !.at = at] EXCEPT !.code = None]
                           /\ r.purpose = q.purpose /\ r.token = q.token /\ r.at = at
        <3>1. PICK x : x = [q EXCEPT !.at = at]
            OBVIOUS
        <3>2. x \in Tab /\ x.purpose = q.purpose /\ x.token = q.token /\ x.at = at
            BY <3>1 DEF Tab
        <3>3. PICK y : y = [x EXCEPT !.code = None]
            OBVIOUS
        <3>4. y \in Tab /\ y.purpose = x.purpose /\ y.token = x.token /\ y.at = x.at
            BY <3>2, <3>3 DEF Tab
        <3> QED
            BY <3>1, <3>2, <3>3, <3>4
    <2>5. tab' = [tab EXCEPT ![t] = r]
        BY <1>0, <2>1, <2>2, <2>3, <2>4 DEF WebTypeOK
    <2>6. \/ q.purpose = "reset" /\ Complete
          \/ /\ q.purpose = "twofa" /\ q.token \in Challenges
             /\ challenge[q.token].purpose = "twofa"
        BY <2>1, <2>2 DEF WebInv, TabSound
    <2>7. Richer
        BY <1>20, <2>1, StillRicher
    <2> QED
        <3>1. /\ r.at \notin {"write", "spend"}
              /\ r.at = "issue" => r.purpose = "reset" /\ Complete
              /\ r.at = "consume" => /\ r.token \in Challenges /\ r.purpose # "none"
                                     /\ challenge[r.token].purpose = r.purpose
            BY <2>3, <2>4, <2>6
        <3> QED
            BY <2>1, <2>5, <2>7, <3>1, OnlyTheCall
<1> QED
    BY <1>1, <1>2, <1>3, <1>4, <1>5, <1>6, <1>7, <1>8, <1>9, <1>10, <1>11, <1>12, <1>13,
       <1>14, <1>15, <1>16, <1>17, <1>18, <1>19, <1>20 DEF WebNext

\* A token opens one thing at most, however many calls present it together and die
\* between two writes (web-auth.service.ts:149, 208).
THEOREM TokensServeOnce == WebSpec => []TokenServesOnce
<1>1. WebInv => TokenServesOnce
    BY DEF WebInv, ChallengeSound, TokenServesOnce
<1> QED
    BY WebInvInit, WebInvNext, <1>1, PTL DEF WebSpec

\* No step of the first login is skipped, and an account is only active with all that
\* the steps write (web-auth.service.ts:407-484).
THEOREM NoStepIsSkipped == WebSpec => []StepsInOrder
<1>1. WebInv => StepsInOrder
    BY DEF WebInv, ChallengeSound, Earned, Complete, StepsInOrder
<1> QED
    BY WebInvInit, WebInvNext, <1>1, PTL DEF WebSpec

-----------------------------------------------------------------------------
(* The vote on a deletion.                                                 *)

\* Who may vote on the target and could already when the call counted the voters.
Staying(c, target) == EligibleVoters(target) \ ballot[c].joined

DemandSound(d) == demand[d].target # Root /\ demand[d].target \notin approvals[d]

\* What a call has counted stays enough: votes are never withdrawn, and whoever
\* becomes a voter after the count has joined since.
BallotSound(c) ==
    /\ ballot[c].at = "create" =>
           /\ ballot[c].target \in Members \ {Root, ballot[c].voter}
           /\ ballot[c].voter \in Supervisors
           /\ ballot[c].target \in Supervisors =>
                  2 * ballot[c].need > Cardinality(Staying(c, ballot[c].target))
    /\ ballot[c].at \in {"vote", "count", "tally", "confirm", "cancel", "expire"} =>
           ballot[c].on \in Filed
    /\ ballot[c].at = "vote" =>
           ballot[c].voter \in Supervisors \ {demand[ballot[c].on].target}
    /\ ballot[c].at = "tally" =>
           2 * ballot[c].need > Cardinality(Staying(c, demand[ballot[c].on].target))
    /\ ballot[c].at = "confirm" =>
           2 * Cardinality(approvals[ballot[c].on])
               > Cardinality(Staying(c, demand[ballot[c].on].target))

VoteInv ==
    /\ VoteTypeOK
    /\ \A d \in Filed : DemandSound(d)
    /\ \A c \in Calls : BallotSound(c)

LEMMA DemandTyped ==
    ASSUME VoteTypeOK, NEW d \in Filed
    PROVE  /\ d \in Demands
           /\ demand[d] \in Demand
           /\ demand[d].target \in Members
           /\ demand[d].by \in Members
BY DEF VoteTypeOK, Filed, Demand

LEMMA BallotTyped ==
    ASSUME VoteTypeOK, NEW c \in Calls
    PROVE  /\ ballot[c] \in Ballot
           /\ ballot[c].on \in Demands \cup {Nobody}
           /\ ballot[c].target \in Members \cup {Nobody}
           /\ ballot[c].voter \in Members \cup {Nobody}
           /\ ballot[c].need \in Nat
           /\ ballot[c].joined \in SUBSET Supervisors
BY DEF VoteTypeOK, Ballot

LEMMA FewerVoters ==
    ASSUME NEW A \in SUBSET Supervisors, NEW B \in SUBSET A
    PROVE  /\ Cardinality(A) \in Nat /\ Cardinality(B) \in Nat
           /\ Cardinality(B) <= Cardinality(A)
<1>1. IsFiniteSet(A)
    BY FS_Subset, VotersAssumption
<1>2. IsFiniteSet(B) /\ Cardinality(B) <= Cardinality(A)
    BY <1>1, FS_Subset
<1> QED
    BY <1>1, <1>2, FS_CardinalityType

LEMMA StayingAreVoters ==
    ASSUME NEW c, NEW target
    PROVE  /\ Staying(c, target) \in SUBSET EligibleVoters(target)
           /\ EligibleVoters(target) \in SUBSET Supervisors
           /\ Cardinality(Staying(c, target)) \in Nat
           /\ Cardinality(EligibleVoters(target)) \in Nat
           /\ Cardinality(Staying(c, target)) <= Cardinality(EligibleVoters(target))
<1>1. PICK E \in SUBSET Supervisors : E = EligibleVoters(target)
    BY DEF EligibleVoters
<1>2. PICK T \in SUBSET E : T = Staying(c, target)
    BY <1>1 DEF Staying
<1> QED
    BY <1>1, <1>2, FewerVoters

\* A majority is more than half.
LEMMA MajorityIsMost ==
    ASSUME NEW c, NEW target
    PROVE  /\ Majority(target) \in Nat
           /\ 2 * Majority(target) > Cardinality(Staying(c, target))
<1>1. PICK n \in Nat, k \in Nat :
          /\ n = Cardinality(EligibleVoters(target))
          /\ k = Cardinality(Staying(c, target)) /\ k <= n
    BY StayingAreVoters
<1>2. n \div 2 + 1 \in Nat /\ 2 * (n \div 2 + 1) > n
    OBVIOUS
<1> QED
    BY <1>1, <1>2 DEF Majority

LEMMA VoteInvInit == VoteInit => VoteInv
BY DEF VoteInit, VoteInv, VoteTypeOK, Filed, DemandSound, BallotSound, Ballot, Blank

\* Requests keep their targets and their votes.
Onwards ==
    /\ VoteTypeOK'
    /\ \A d \in Filed : /\ d \in Filed'
                        /\ demand'[d].target = demand[d].target
                        /\ approvals[d] \subseteq approvals'[d]

\* Who is a voter after this step was one before.
NoNewcomer ==
    /\ deleted \subseteq deleted'
    /\ \A m \in Members : webUser'[m] = "active" => webUser[m] = "active"

\* The call keeps what it has read, and knows who joined.
KeepsCount(c) ==
    /\ ballot'[c].at = ballot[c].at /\ ballot'[c].on = ballot[c].on
    /\ ballot'[c].target = ballot[c].target /\ ballot'[c].voter = ballot[c].voter
    /\ ballot'[c].need = ballot[c].need
    /\ HasCounted(c) => \A m \in Members : Staying(c, m)' \subseteq Staying(c, m)

LEMMA NobodyJoins ==
    ASSUME NoNewcomer, NEW c \in Calls, ballot'[c] = ballot[c]
    PROVE  KeepsCount(c)
BY DEF NoNewcomer, KeepsCount, Staying, EligibleVoters, Here, Members

\* A call that does nothing still knows what it knew.
LEMMA CallStaysSound ==
    ASSUME VoteInv, Onwards, NEW c \in Calls, KeepsCount(c)
    PROVE  BallotSound(c)'
<1>1. BallotSound(c) /\ VoteTypeOK /\ VoteTypeOK'
    BY DEF VoteInv, Onwards
<1>2. ASSUME NEW m \in Members, HasCounted(c)
      PROVE  /\ Cardinality(Staying(c, m)') \in Nat /\ Cardinality(Staying(c, m)) \in Nat
             /\ Cardinality(Staying(c, m)') <= Cardinality(Staying(c, m))
    <2>1. PICK A \in SUBSET Supervisors : A = Staying(c, m)
        BY DEF Staying, EligibleVoters
    <2>2. PICK B \in SUBSET A : B = Staying(c, m)'
        BY <1>2, <2>1 DEF KeepsCount
    <2> QED
        BY <2>1, <2>2, FewerVoters
<1>3. CASE ballot[c].at = "create"
    <2>1. PICK m \in Members : m = ballot[c].target
        BY <1>1, <1>3 DEF BallotSound
    <2>2. m = ballot'[c].target
        BY <2>1 DEF KeepsCount
    <2>3. ballot[c].need \in Nat
        BY <1>1, BallotTyped
    <2>4. m \in Supervisors => 2 * ballot[c].need > Cardinality(Staying(c, m))
        BY <1>1, <1>3, <2>1 DEF BallotSound
    <2>5. HasCounted(c)
        BY <1>3 DEF HasCounted
    <2>6. m \in Supervisors => 2 * ballot[c].need > Cardinality(Staying(c, m)')
        BY <1>2, <2>3, <2>4, <2>5
    <2>7. Cardinality(Staying(c, m)') = Cardinality(Staying(c, ballot[c].target))'
        BY <2>2 DEF Staying, EligibleVoters
    <2> QED
        BY <1>1, <1>3, <2>1, <2>2, <2>6, <2>7 DEF BallotSound, KeepsCount
<1>4. CASE ballot[c].at \in {"tally", "confirm"}
    <2>1. PICK d \in Filed : d = ballot[c].on
        BY <1>1, <1>4 DEF BallotSound
    <2>2. d = ballot'[c].on /\ d \in Filed' /\ demand'[d].target = demand[d].target
        BY <2>1 DEF KeepsCount, Onwards
    <2>3. PICK m \in Members : m = demand[d].target
        BY <1>1, DemandTyped
    <2>4. HasCounted(c) /\ ballot[c].need \in Nat
        BY <1>1, <1>4, BallotTyped DEF HasCounted
    <2>5. Cardinality(approvals[d]) <= Cardinality(approvals'[d])
          /\ Cardinality(approvals[d]) \in Nat /\ Cardinality(approvals'[d]) \in Nat
        <3>1. PICK A \in SUBSET Supervisors, B \in SUBSET Supervisors :
                  A = approvals'[d] /\ B = approvals[d] /\ B \subseteq A
            BY <1>1, DemandTyped DEF VoteTypeOK, Onwards
        <3> QED
            BY <3>1, FewerVoters
    <2>6. /\ ballot[c].at = "tally" => 2 * ballot[c].need > Cardinality(Staying(c, m))
          /\ ballot[c].at = "confirm" =>
                 2 * Cardinality(approvals[d]) > Cardinality(Staying(c, m))
        BY <1>1, <2>1, <2>3 DEF BallotSound
    <2>7. /\ ballot[c].at = "tally" => 2 * ballot[c].need > Cardinality(Staying(c, m)')
          /\ ballot[c].at = "confirm" =>
                 2 * Cardinality(approvals'[d]) > Cardinality(Staying(c, m)')
        BY <1>2, <2>4, <2>5, <2>6
    <2>8. Cardinality(Staying(c, m)') = Cardinality(Staying(c, demand[ballot[c].on].target))'
        BY <2>2, <2>3 DEF Staying, EligibleVoters
    <2> QED
        BY <1>4, <2>2, <2>7, <2>8 DEF BallotSound, KeepsCount
<1>5. CASE ballot[c].at \notin {"create", "tally", "confirm"}
    BY <1>1, <1>5 DEF BallotSound, KeepsCount, Onwards
<1> QED
    BY <1>3, <1>4, <1>5

\* A step is sound when the requests it files and the calls it changes are.
LEMMA StepIsSound ==
    ASSUME VoteInv, Onwards,
           \A d \in Filed' \ Filed : DemandSound(d)',
           \A d \in Filed : demand[d].target \notin approvals'[d],
           \A c \in Calls : KeepsCount(c) \/ BallotSound(c)'
    PROVE  VoteInv'
<1>1. \A d \in Filed' : DemandSound(d)'
    BY DEF VoteInv, DemandSound, Onwards
<1>2. \A c \in Calls : BallotSound(c)'
    BY CallStaysSound
<1> QED
    BY <1>1, <1>2 DEF VoteInv, Onwards

\* Requests stay what they were, but for their status.
SameDemands ==
    /\ demand' \in [Demands -> Demand \cup {Nobody}]
    /\ \A d \in Filed : demand'[d] # Nobody /\ demand'[d].target = demand[d].target
    /\ \A d \in Demands \ Filed : demand'[d] = Nobody

LEMMA RequestsStay ==
    ASSUME VoteInv, SameDemands, UNCHANGED approvals,
           webUser' \in [Members -> {"none", "invited", "active"}],
           deleted' \subseteq Members,
           verdicts' \in [Demands -> SUBSET DemandStatuses],
           ballot' \in [Calls -> Ballot],
           \A c \in Calls : KeepsCount(c) \/ BallotSound(c)'
    PROVE  VoteInv'
<1>1. VoteTypeOK'
    BY DEF VoteInv, VoteTypeOK, SameDemands
<1>2. Filed' = Filed /\ Onwards
    BY <1>1 DEF SameDemands, Filed, Onwards
<1> QED
    BY <1>2, StepIsSound DEF VoteInv, DemandSound

LEMMA CallGoesOn ==
    ASSUME VoteInv, SameDemands, UNCHANGED <<webUser, deleted, approvals>>,
           verdicts' \in [Demands -> SUBSET DemandStatuses],
           ballot' \in [Calls -> Ballot],
           \A c \in Calls : ballot'[c] = ballot[c] \/ BallotSound(c)'
    PROVE  VoteInv'
<1>1. NoNewcomer
    BY DEF NoNewcomer
<1>2. \A c \in Calls : KeepsCount(c) \/ BallotSound(c)'
    BY <1>1, NobodyJoins
<1> QED
    BY <1>2, RequestsStay DEF VoteInv, VoteTypeOK

LEMMA VoteInvNext == VoteInv /\ [VoteNext]_voteVars => VoteInv'
<1> SUFFICES ASSUME VoteInv, [VoteNext]_voteVars
             PROVE  VoteInv'
    OBVIOUS
<1>0. /\ VoteTypeOK
      /\ demand \in [Demands -> Demand \cup {Nobody}]
      /\ approvals \in [Demands -> SUBSET Supervisors]
      /\ ballot \in [Calls -> Ballot]
      /\ verdicts \in [Demands -> SUBSET DemandStatuses]
      /\ deleted \subseteq Members
      /\ webUser \in [Members -> {"none", "invited", "active"}]
    BY DEF VoteInv, VoteTypeOK
<1>a. Blank \in Ballot /\ Blank.at = "idle"
    BY DEF Blank, Ballot
<1>f. NoNewcomer => \A e \in Calls : ballot'[e] = ballot[e] => KeepsCount(e)
    BY NobodyJoins
<1>b. demand' = demand => SameDemands
    BY <1>0 DEF SameDemands, Filed
<1>c. ASSUME NEW c \in Calls, Done(c)
      PROVE  /\ ballot' \in [Calls -> Ballot]
             /\ \A e \in Calls : ballot'[e] = ballot[e] \/ BallotSound(e)'
    BY <1>0, <1>a, <1>c DEF Done, BallotSound
<1>d. ASSUME NEW c \in Calls, NEW b \in Ballot,
             ballot' = [ballot EXCEPT ![c] = b]
      PROVE  /\ ballot' \in [Calls -> Ballot] /\ ballot'[c] = b
             /\ \A e \in Calls \ {c} : ballot'[e] = ballot[e]
    BY <1>0, <1>d
<1>e. ASSUME NEW d \in Filed, NEW st \in DemandStatuses, Verdict(d, st)
      PROVE  SameDemands /\ verdicts' \in [Demands -> SUBSET DemandStatuses]
    <2>1. d \in Demands /\ demand[d] \in Demand
        BY <1>0, DemandTyped
    <2>2. [demand[d] EXCEPT !.status = st] \in Demand
        BY <2>1 DEF Demand
    <2>3. demand' = [demand EXCEPT ![d].status = st]
        BY <1>e DEF Verdict
    <2>4. demand' \in [Demands -> Demand \cup {Nobody}] /\ demand'[d] \in Demand
          /\ demand'[d].target = demand[d].target
          /\ \A e \in Demands \ {d} : demand'[e] = demand[e]
        BY <1>0, <2>1, <2>2, <2>3 DEF Demand
    <2>5. SameDemands
        BY <1>0, <2>1, <2>4, NoDemandAssumption DEF SameDemands, Filed
    <2>6. verdicts' \in [Demands -> SUBSET DemandStatuses]
        BY <1>0, <1>e, <2>1 DEF Verdict
    <2> QED
        BY <2>5, <2>6
<1>1. CASE UNCHANGED voteVars
    BY <1>0, <1>1, <1>b, CallGoesOn DEF voteVars
<1>2. ASSUME NEW c \in Calls, ReadForInitiate(c) PROVE VoteInv'
    <2>1. PICK target \in Members, by \in Supervisors :
              /\ MayInitiate(target, by)
              /\ ballot' = [ballot EXCEPT ![c] =
                     [at |-> "create", on |-> Nobody, target |-> target, voter |-> by,
                      need |-> IF target \in Admins THEN 1 ELSE Majority(target), joined |-> {}]]
        BY <1>2 DEF ReadForInitiate
    <2>2. PICK n \in Nat : n = IF target \in Admins THEN 1 ELSE Majority(target)
        BY MajorityIsMost
    <2>3. PICK b : b = [at |-> "create", on |-> Nobody, target |-> target, voter |-> by,
                        need |-> n, joined |-> {}]
        OBVIOUS
    <2>4. /\ b \in Ballot
          /\ b.at = "create" /\ b.target = target /\ b.voter = by /\ b.need = n
        BY <2>3 DEF Ballot, Members
    <2>5. ballot' = [ballot EXCEPT ![c] = b]
        BY <2>1, <2>2, <2>3
    <2>6. UNCHANGED <<webUser, deleted, demand, approvals, verdicts>>
        BY <1>2 DEF ReadForInitiate
    <2>7. ballot'[c] = b /\ target \in Members \ {Root, by}
        BY <1>d, <2>1, <2>4, <2>5 DEF MayInitiate
    <2>8. target \in Supervisors => 2 * n > Cardinality(Staying(c, target)')
        <3>1. PICK k \in Nat, j \in Nat : /\ k = Cardinality(EligibleVoters(target))
                                          /\ j = Cardinality(Staying(c, target)') /\ j <= k
            <4>1. PICK E \in SUBSET Supervisors : E = EligibleVoters(target)
                BY DEF EligibleVoters
            <4>2. PICK T \in SUBSET E : T = Staying(c, target)'
                BY <2>6, <4>1 DEF Staying, EligibleVoters, Here
            <4> QED
                BY <4>1, <4>2, FewerVoters
        <3>2. k \div 2 + 1 \in Nat /\ 2 * (k \div 2 + 1) > k
            OBVIOUS
        <3>3. target \in Supervisors => n = k \div 2 + 1
            BY <2>2, <3>1, VotersAssumption DEF Majority
        <3> QED
            BY <3>1, <3>2, <3>3
    <2>9. Cardinality(Staying(c, ballot[c].target))' = Cardinality(Staying(c, target)')
        BY <2>4, <2>7 DEF Staying, EligibleVoters
    <2>10. BallotSound(c)'
        BY <2>4, <2>7, <2>8, <2>9 DEF BallotSound
    <2> QED
        BY <1>0, <1>b, <1>d, <2>4, <2>5, <2>6, <2>10, CallGoesOn
<1>3. ASSUME NEW c \in Calls, CommitInitiate(c) PROVE VoteInv'
    <2>1. PICK b \in Ballot : b = ballot[c]
        BY <1>0
    <2>2. b.target \in Members \ {Root, b.voter} /\ b.voter \in Supervisors
        <3>1. b.at = "create" /\ BallotSound(c)
            BY <1>3, <2>1 DEF CommitInitiate, VoteInv
        <3> QED
            BY <2>1, <3>1 DEF BallotSound
    <2>3. PICK st \in DemandStatuses : st = IF b.need <= 1 THEN "CONFIRMED" ELSE "PENDING"
        BY DEF DemandStatuses
    <2>4. PICK r : r = [target |-> b.target, by |-> b.voter, status |-> st, past |-> FALSE]
        OBVIOUS
    <2>5. r \in Demand /\ r.target = b.target
        BY <2>2, <2>4 DEF Demand, Members
    <2>6. PICK d \in Demands \ Filed :
              /\ demand' = [demand EXCEPT ![d] = r]
              /\ approvals' = [approvals EXCEPT ![d] = {b.voter}]
              /\ verdicts' = [verdicts EXCEPT ![d] = {st}]
        BY <1>3, <2>1, <2>3, <2>4 DEF CommitInitiate
    <2>7. /\ deleted' = IF b.need <= 1 THEN deleted \cup {b.target} ELSE deleted
          /\ webUser' = webUser /\ Done(c)
        BY <1>3, <2>1 DEF CommitInitiate
    <2>8. VoteTypeOK'
        BY <1>0, <1>c, <2>2, <2>5, <2>6, <2>7 DEF VoteTypeOK
    <2>9. /\ Filed' = Filed \cup {d} /\ demand'[d] = r /\ approvals'[d] = {b.voter}
          /\ \A e \in Filed : demand'[e] = demand[e] /\ approvals'[e] = approvals[e]
        BY <1>0, <2>5, <2>6, NoDemandAssumption DEF Filed
    <2>10. Onwards
        BY <2>7, <2>8, <2>9 DEF Onwards
    <2>11. DemandSound(d)'
        BY <2>2, <2>5, <2>9 DEF DemandSound
    <2>12. \A e \in Filed : demand[e].target \notin approvals'[e]
        BY <2>9 DEF VoteInv, DemandSound
    <2>13. NoNewcomer
        BY <2>7 DEF NoNewcomer
    <2> QED
        BY <1>c, <1>f, <2>7, <2>9, <2>10, <2>11, <2>12, <2>13, StepIsSound
<1>4. ASSUME NEW c \in Calls, ReadForApprove(c) PROVE VoteInv'
    <2>1. PICK d \in Filed, voter \in Supervisors :
              /\ voter # demand[d].target
              /\ ballot' = [ballot EXCEPT ![c] =
                     [Blank EXCEPT !.at = "vote", !.on = d, !.voter = voter]]
        BY <1>4 DEF ReadForApprove
    <2>2. PICK b : b = [Blank EXCEPT !.at = "vote", !.on = d, !.voter = voter]
        OBVIOUS
    <2>3. b \in Ballot /\ b.at = "vote" /\ b.on = d /\ b.voter = voter
        BY <2>2 DEF Ballot, Blank, Members, Filed
    <2>4. UNCHANGED <<webUser, deleted, demand, approvals, verdicts>>
        BY <1>4 DEF ReadForApprove
    <2>5. BallotSound(c)'
        BY <1>d, <2>1, <2>2, <2>3, <2>4 DEF BallotSound, Filed
    <2> QED
        BY <1>0, <1>b, <1>d, <2>1, <2>2, <2>3, <2>4, <2>5, CallGoesOn
<1>5. ASSUME NEW c \in Calls, InsertVote(c) PROVE VoteInv'
    <2>1. PICK q \in Ballot : q = ballot[c]
        BY <1>0
    <2>2. PICK d \in Filed : d = q.on
        BY <1>5, <2>1 DEF InsertVote, VoteInv, BallotSound
    <2>3. q.voter \in Supervisors \ {demand[d].target}
        BY <1>5, <2>1, <2>2 DEF InsertVote, VoteInv, BallotSound
    <2>4. UNCHANGED <<webUser, deleted, demand, verdicts>>
        BY <1>5 DEF InsertVote
    <2>5. CASE q.voter \in approvals[d]
        <3>1. Done(c) /\ UNCHANGED approvals
            BY <1>5, <2>1, <2>2, <2>5 DEF InsertVote
        <3> QED
            BY <1>0, <1>b, <1>c, <2>4, <3>1, CallGoesOn
    <2>6. CASE q.voter \notin approvals[d]
        <3>1. PICK b : b = [q EXCEPT !.at = "count"]
            OBVIOUS
        <3>2. b \in Ballot /\ b.at = "count" /\ b.on = d
            BY <2>2, <3>1 DEF Ballot
        <3>3. /\ approvals' = [approvals EXCEPT ![d] = @ \cup {q.voter}]
              /\ ballot' = [ballot EXCEPT ![c] = b]
            BY <1>5, <2>1, <2>2, <2>6, <3>1 DEF InsertVote
        <3>4. d \in Demands
            BY DEF Filed
        <3>5. /\ approvals' \in [Demands -> SUBSET Supervisors]
              /\ approvals'[d] = approvals[d] \cup {q.voter}
              /\ \A e \in Demands \ {d} : approvals'[e] = approvals[e]
            BY <1>0, <2>3, <3>3, <3>4
        <3>6. VoteTypeOK'
            BY <1>0, <1>d, <2>4, <3>2, <3>3, <3>5 DEF VoteTypeOK
        <3>7. Filed' = Filed /\ Onwards
            BY <2>4, <3>5, <3>6 DEF Onwards, Filed
        <3>8. \A e \in Filed : demand[e].target \notin approvals'[e]
            BY <2>3, <3>5 DEF VoteInv, DemandSound, Filed
        <3>9. BallotSound(c)'
            BY <1>d, <3>2, <3>3, <3>7 DEF BallotSound
        <3> QED
            <4>1. NoNewcomer
                BY <2>4 DEF NoNewcomer
            <4> QED
                BY <1>d, <1>f, <2>4, <3>2, <3>3, <3>7, <3>8, <3>9, <4>1, StepIsSound
    <2> QED
        BY <2>5, <2>6
<1>6. ASSUME NEW c \in Calls, CountVotes(c) PROVE VoteInv'
    <2>1. PICK q \in Ballot : q = ballot[c]
        BY <1>0
    <2>2. PICK d \in Filed : d = q.on
        BY <1>6, <2>1 DEF CountVotes, VoteInv, BallotSound
    <2>3. UNCHANGED <<webUser, deleted, demand, approvals, verdicts>>
        BY <1>6 DEF CountVotes
    <2>4. CASE Cardinality(approvals[d]) >= q.need
        <3>1. PICK b : b = [q EXCEPT !.at = "confirm"]
            OBVIOUS
        <3>2. b \in Ballot /\ b.at = "confirm" /\ b.on = d /\ b.joined = q.joined
            BY <2>2, <3>1 DEF Ballot
        <3>3. ballot' = [ballot EXCEPT ![c] = b]
            BY <1>6, <2>1, <2>2, <2>4, <3>1 DEF CountVotes
        <3>4. PICK m \in Members : m = demand[d].target
            BY <1>0, DemandTyped
        <3>5. 2 * Cardinality(approvals[d]) > Cardinality(Staying(c, m))
            <4>1. Cardinality(approvals[d]) \in Nat
                BY <1>0, FewerVoters DEF Filed
            <4>2. q.need \in Nat /\ Cardinality(Staying(c, m)) \in Nat
                BY StayingAreVoters DEF Ballot
            <4>3. 2 * q.need > Cardinality(Staying(c, m))
                BY <1>6, <2>1, <2>2, <3>4 DEF CountVotes, VoteInv, BallotSound
            <4> QED
                BY <2>4, <4>1, <4>2, <4>3
        <3>6. Cardinality(Staying(c, m))
                  = Cardinality(Staying(c, demand[ballot[c].on].target))'
            BY <1>d, <2>1, <2>3, <3>2, <3>3, <3>4 DEF Staying, EligibleVoters, Here
        <3>7. ballot'[c] = b /\ approvals' = approvals /\ Filed' = Filed
            BY <1>d, <2>3, <3>2, <3>3 DEF Filed
        <3>8. BallotSound(c)'
            BY <3>2, <3>5, <3>6, <3>7 DEF BallotSound
        <3> QED
            BY <1>0, <1>b, <1>d, <2>3, <3>2, <3>3, <3>8, CallGoesOn
    <2>5. CASE ~(Cardinality(approvals[d]) >= q.need)
        <3>1. Done(c)
            BY <1>6, <2>1, <2>2, <2>5 DEF CountVotes
        <3> QED
            BY <1>0, <1>b, <1>c, <2>3, <3>1, CallGoesOn
    <2> QED
        BY <2>4, <2>5
<1>7. ASSUME NEW c \in Calls, CommitApprove(c) PROVE VoteInv'
    <2>1. PICK d \in Filed : d = ballot[c].on
        BY <1>7 DEF CommitApprove, VoteInv, BallotSound
    <2>2. /\ deleted' = deleted \cup {demand[d].target}
          /\ Verdict(d, "CONFIRMED") /\ Done(c) /\ UNCHANGED <<webUser, approvals>>
        BY <1>7, <2>1 DEF CommitApprove
    <2>3. NoNewcomer
        BY <2>2 DEF NoNewcomer
    <2>4. SameDemands /\ verdicts' \in [Demands -> SUBSET DemandStatuses]
        BY <1>e, <2>2 DEF DemandStatuses
    <2>5. deleted' \subseteq Members
        BY <1>0, <2>2, DemandTyped
    <2>6. \A e \in Calls : KeepsCount(e) \/ BallotSound(e)'
        BY <1>c, <1>f, <2>2, <2>3
    <2> QED
        BY <1>0, <1>c, <2>2, <2>4, <2>5, <2>6, RequestsStay
<1>8. ASSUME NEW c \in Calls, ReadForCancel(c) PROVE VoteInv'
    <2>1. PICK d \in Filed, actor \in Members :
              ballot' = [ballot EXCEPT ![c] =
                  [Blank EXCEPT !.at = "cancel", !.on = d, !.voter = actor]]
        BY <1>8 DEF ReadForCancel
    <2>2. PICK b : b = [Blank EXCEPT !.at = "cancel", !.on = d, !.voter = actor]
        OBVIOUS
    <2>3. b \in Ballot /\ b.at = "cancel" /\ b.on = d
        BY <2>2 DEF Ballot, Blank, Filed
    <2>4. UNCHANGED <<webUser, deleted, demand, approvals, verdicts>>
        BY <1>8 DEF ReadForCancel
    <2>5. BallotSound(c)'
        BY <1>d, <2>1, <2>2, <2>3, <2>4 DEF BallotSound, Filed
    <2> QED
        BY <1>0, <1>b, <1>d, <2>1, <2>2, <2>3, <2>4, <2>5, CallGoesOn
<1>9. ASSUME NEW c \in Calls, CommitCancel(c) \/ CommitExpiry(c) PROVE VoteInv'
    <2>1. PICK d \in Filed, st \in DemandStatuses : Verdict(d, st)
        BY <1>9 DEF CommitCancel, CommitExpiry, VoteInv, BallotSound, DemandStatuses
    <2>2. Done(c) /\ UNCHANGED <<webUser, deleted, approvals>>
        BY <1>9 DEF CommitCancel, CommitExpiry
    <2> QED
        BY <1>0, <1>c, <1>e, <2>1, <2>2, CallGoesOn
<1>10. ASSUME NEW c \in Calls, ReadForExpiry(c) PROVE VoteInv'
    <2>1. PICK d \in Filed :
              ballot' = [ballot EXCEPT ![c] = [Blank EXCEPT !.at = "expire", !.on = d]]
        BY <1>10 DEF ReadForExpiry
    <2>2. PICK b : b = [Blank EXCEPT !.at = "expire", !.on = d]
        OBVIOUS
    <2>3. b \in Ballot /\ b.at = "expire" /\ b.on = d
        BY <2>2 DEF Ballot, Blank, Filed
    <2>4. UNCHANGED <<webUser, deleted, demand, approvals, verdicts>>
        BY <1>10 DEF ReadForExpiry
    <2>5. BallotSound(c)'
        BY <1>d, <2>1, <2>2, <2>3, <2>4 DEF BallotSound, Filed
    <2> QED
        BY <1>0, <1>b, <1>d, <2>1, <2>2, <2>3, <2>4, <2>5, CallGoesOn
<1>11. CASE TimeIsOver
    <2>1. PICK d \in Filed : demand' = [demand EXCEPT ![d].past = TRUE]
        BY <1>11 DEF TimeIsOver
    <2>2. d \in Demands /\ demand[d] \in Demand
        BY <1>0, DemandTyped
    <2>3. PICK r : r = [demand[d] EXCEPT !.past = TRUE]
        OBVIOUS
    <2>4. r \in Demand /\ r.target = demand[d].target
        BY <2>2, <2>3 DEF Demand
    <2>5. demand' = [demand EXCEPT ![d] = r]
        BY <2>1, <2>3
    <2>6. SameDemands
        BY <1>0, <2>2, <2>4, <2>5, NoDemandAssumption DEF SameDemands, Filed
    <2> QED
        BY <1>0, <1>11, <2>6, CallGoesOn DEF TimeIsOver
<1>12. ASSUME NEW c \in Calls, CallDies(c) PROVE VoteInv'
    BY <1>0, <1>12, <1>b, <1>c, CallGoesOn DEF CallDies
<1>13. ASSUME NEW c \in Calls, CountVoters(c) PROVE VoteInv'
    <2>1. PICK q \in Ballot : q = ballot[c]
        BY <1>0
    <2>2. PICK d \in Filed : d = q.on
        BY <1>13, <2>1 DEF CountVoters, VoteInv, BallotSound
    <2>3. PICK m \in Members : m = demand[d].target
        BY <1>0, DemandTyped
    <2>4. PICK n \in Nat : n = Majority(m)
        BY MajorityIsMost
    <2>5. PICK b \in Ballot :
              /\ b = [[q EXCEPT !.at = "tally"] EXCEPT !.need = n]
              /\ b.at = "tally" /\ b.on = d /\ b.need = n /\ b.joined = q.joined
        <3>1. PICK x : x = [q EXCEPT !.at = "tally"]
            OBVIOUS
        <3>2. x \in Ballot /\ x.at = "tally" /\ x.on = d /\ x.joined = q.joined
            BY <2>2, <3>1 DEF Ballot
        <3>3. PICK y : y = [x EXCEPT !.need = n]
            OBVIOUS
        <3>4. y \in Ballot /\ y.at = x.at /\ y.on = x.on /\ y.joined = x.joined /\ y.need = n
            BY <3>2, <3>3 DEF Ballot
        <3> QED
            BY <3>1, <3>2, <3>3, <3>4
    <2>6. /\ ballot' = [ballot EXCEPT ![c] = b]
          /\ UNCHANGED <<webUser, deleted, demand, approvals, verdicts>>
        BY <1>0, <1>13, <2>1, <2>2, <2>3, <2>4, <2>5 DEF CountVoters
    <2>7. 2 * n > Cardinality(Staying(c, m))
        BY <2>4, MajorityIsMost
    <2>8. Cardinality(Staying(c, m)) = Cardinality(Staying(c, demand[ballot[c].on].target))'
        BY <1>d, <2>1, <2>3, <2>5, <2>6 DEF Staying, EligibleVoters, Here
    <2>9. ballot'[c] = b /\ Filed' = Filed
        BY <1>d, <2>6 DEF Filed
    <2>10. BallotSound(c)'
        BY <2>5, <2>7, <2>8, <2>9 DEF BallotSound
    <2> QED
        BY <1>0, <1>b, <1>d, <2>6, <2>10, CallGoesOn
<1>14. CASE Provision
    <2>1. PICK m \in Members : /\ webUser' = [webUser EXCEPT ![m] = "invited"]
                               /\ UNCHANGED <<deleted, demand, approvals, ballot, verdicts>>
        BY <1>14 DEF Provision
    <2>2. NoNewcomer /\ webUser' \in [Members -> {"none", "invited", "active"}]
        BY <1>0, <2>1 DEF NoNewcomer
    <2>3. \A e \in Calls : KeepsCount(e)
        BY <1>f, <2>1, <2>2
    <2> QED
        BY <1>0, <1>b, <2>1, <2>2, <2>3, RequestsStay
<1>15. CASE Activate
    <2>1. PICK m \in Members :
              /\ webUser' = [webUser EXCEPT ![m] = "active"]
              /\ ballot' = [c \in Calls |->
                     IF HasCounted(c)
                     THEN [ballot[c] EXCEPT !.joined = @ \cup ({m} \cap Supervisors)]
                     ELSE ballot[c]]
              /\ UNCHANGED <<deleted, demand, approvals, verdicts>>
        BY <1>15 DEF Activate
    <2>2. webUser' \in [Members -> {"none", "invited", "active"}]
        BY <1>0, <2>1
    <2>3. PICK X \in SUBSET Supervisors : X = {m} \cap Supervisors
        OBVIOUS
    <2>4. ASSUME NEW c \in Calls
          PROVE  /\ ballot'[c] \in Ballot
                 /\ ballot'[c].at = ballot[c].at /\ ballot'[c].on = ballot[c].on
                 /\ ballot'[c].target = ballot[c].target /\ ballot'[c].voter = ballot[c].voter
                 /\ ballot'[c].need = ballot[c].need
                 /\ HasCounted(c) => ballot'[c].joined = ballot[c].joined \cup X
        <3>1. PICK q \in Ballot : q = ballot[c]
            BY <1>0
        <3>2. CASE HasCounted(c)
            <4>1. PICK r : r = [q EXCEPT !.joined = @ \cup X]
                OBVIOUS
            <4>2. /\ r \in Ballot /\ r.at = q.at /\ r.on = q.on /\ r.target = q.target
                  /\ r.voter = q.voter /\ r.need = q.need /\ r.joined = q.joined \cup X
                BY <4>1 DEF Ballot
            <4>3. ballot'[c] = r
                BY <2>1, <2>3, <3>1, <3>2, <4>1
            <4> QED
                BY <3>1, <4>2, <4>3
        <3>3. CASE ~HasCounted(c)
            <4>1. ballot'[c] = q
                BY <2>1, <3>1, <3>3
            <4> QED
                BY <3>1, <3>3, <4>1
        <3> QED
            BY <3>2, <3>3
    <2>5. \A e \in Members : EligibleVoters(e)' \subseteq EligibleVoters(e) \cup X
        BY <1>0, <2>1, <2>3 DEF EligibleVoters, Here, Members
    <2>6. \A c \in Calls : KeepsCount(c)
        BY <2>4, <2>5 DEF KeepsCount, Staying
    <2>7. ballot' \in [Calls -> Ballot]
        BY <2>1, <2>4, SMTT(30)
    <2> QED
        BY <1>0, <1>b, <2>1, <2>2, <2>6, <2>7, RequestsStay
<1> QED
    BY <1>1, <1>2, <1>3, <1>4, <1>5, <1>6, <1>7, <1>8, <1>9, <1>10, <1>11, <1>12, <1>13,
       <1>14, <1>15 DEF VoteNext

\* What the two calls that delete have counted is still enough when they do.
LEMMA OnlyMajorityDeletes ==
    ASSUME VoteInv, VoteNext
    PROVE  ByMajority
<1>0. /\ VoteTypeOK /\ ballot \in [Calls -> Ballot]
      /\ demand \in [Demands -> Demand \cup {Nobody}]
      /\ approvals \in [Demands -> SUBSET Supervisors]
    BY DEF VoteInv, VoteTypeOK
<1>a. Blank.at = "idle"
    BY DEF Blank
<1>1. ASSUME NEW c \in Calls, CommitInitiate(c) PROVE ByMajority
    <2>1. PICK b \in Ballot : b = ballot[c]
        BY <1>0
    <2>2. b.at = "create" /\ BallotSound(c)
        BY <1>1, <2>1 DEF CommitInitiate, VoteInv
    <2>3. b.target \in Members \ {Root, b.voter} /\ b.voter \in Supervisors
        BY <2>1, <2>2 DEF BallotSound
    <2>4. PICK st \in DemandStatuses : st = IF b.need <= 1 THEN "CONFIRMED" ELSE "PENDING"
        BY DEF DemandStatuses
    <2>5. PICK r : r = [target |-> b.target, by |-> b.voter, status |-> st, past |-> FALSE]
        OBVIOUS
    <2>6. r \in Demand /\ r.target = b.target
        BY <2>3, <2>5 DEF Demand, Members
    <2>7. PICK d \in Demands \ Filed : /\ demand' = [demand EXCEPT ![d] = r]
                                       /\ approvals' = [approvals EXCEPT ![d] = {b.voter}]
        BY <1>1, <2>1, <2>4, <2>5 DEF CommitInitiate
    <2>8. /\ deleted' = IF b.need <= 1 THEN deleted \cup {b.target} ELSE deleted
          /\ ballot' = [ballot EXCEPT ![c] = Blank]
        BY <1>1, <2>1 DEF CommitInitiate, Done
    <2>9. demand'[d] = r /\ approvals'[d] = {b.voter} /\ ballot[c] # ballot'[c]
        BY <1>0, <1>a, <2>1, <2>2, <2>7, <2>8
    <2>10. ASSUME NEW s \in Going
          PROVE  s # Root /\ Approved(s, EligibleVoters(s) \ ballot[c].joined)
        <3>1. s = b.target /\ b.need <= 1 /\ s \in Supervisors
            BY <2>8, <2>10 DEF Going
        <3>2. 2 * b.need > Cardinality(Staying(c, s))
            BY <2>1, <2>2, <3>1 DEF BallotSound
        <3>3. Cardinality(approvals'[d]) = 1
            BY <2>9, FS_Singleton
        <3>4. 2 * Cardinality(approvals'[d]) > Cardinality(Staying(c, s))
            <4>1. b.need \in Nat /\ Cardinality(Staying(c, s)) \in Nat
                BY StayingAreVoters DEF Ballot
            <4> QED
                BY <3>1, <3>2, <3>3, <4>1
        <3> QED
            BY <2>3, <2>6, <2>9, <3>1, <3>4, NoDemandAssumption DEF Approved, Staying
    <2> QED
        BY <2>9, <2>10 DEF ByMajority
<1>2. ASSUME NEW c \in Calls, CommitApprove(c) PROVE ByMajority
    <2>1. PICK d \in Filed : d = ballot[c].on
        BY <1>2 DEF CommitApprove, VoteInv, BallotSound
    <2>2. /\ deleted' = deleted \cup {demand[d].target} /\ approvals' = approvals
          /\ demand' = [demand EXCEPT ![d].status = "CONFIRMED"]
          /\ ballot' = [ballot EXCEPT ![c] = Blank]
        BY <1>2, <2>1 DEF CommitApprove, Verdict, Done
    <2>3. d \in Demands /\ demand[d] \in Demand
        BY <1>0, DemandTyped
    <2>4. demand'[d] \in Demand /\ demand'[d].target = demand[d].target
        <3>1. PICK r : r = [demand[d] EXCEPT !.status = "CONFIRMED"]
            OBVIOUS
        <3>2. r \in Demand /\ r.target = demand[d].target
            BY <2>3, <3>1 DEF Demand, DemandStatuses
        <3> QED
            BY <1>0, <2>2, <2>3, <3>1, <3>2
    <2>5. ballot[c] # ballot'[c]
        BY <1>0, <1>2, <1>a, <2>2 DEF CommitApprove
    <2>6. ASSUME NEW s \in Going
          PROVE  s # Root /\ Approved(s, EligibleVoters(s) \ ballot[c].joined)
        <3>1. s = demand[d].target
            BY <2>2 DEF Going
        <3>2. s # Root /\ s \notin approvals[d]
            BY <3>1 DEF VoteInv, DemandSound
        <3>3. 2 * Cardinality(approvals[d]) > Cardinality(Staying(c, s))
            BY <1>2, <2>1, <3>1 DEF CommitApprove, VoteInv, BallotSound
        <3> QED
            BY <2>2, <2>3, <2>4, <3>1, <3>2, <3>3, NoDemandAssumption DEF Approved, Staying
    <2> QED
        BY <2>5, <2>6 DEF ByMajority
<1>3. CASE UNCHANGED deleted
    BY <1>3 DEF ByMajority, Going
<1> QED
    BY <1>1, <1>2, <1>3 DEF VoteNext, Provision, Activate, ReadForInitiate, ReadForApprove,
       InsertVote, CountVoters, CountVotes, ReadForCancel, CommitCancel, ReadForExpiry,
       CommitExpiry, TimeIsOver, CallDies

\* Whatever requests overlap, expire or are cancelled, and whoever joins or leaves
\* the Supervision meanwhile, a member is only deleted with the approval of more than
\* half of the others that the deleting call could count, and the root account never
\* is (web-users.service.ts:138, 246).
THEOREM MajorityDeletes == VoteSpec => DeletedByMajority
<1>1. VoteInv /\ [VoteNext]_voteVars => [ByMajority]_voteVars
    BY OnlyMajorityDeletes
<1> QED
    BY VoteInvInit, VoteInvNext, <1>1, PTL DEF VoteSpec, DeletedByMajority

-----------------------------------------------------------------------------
(* Reports.                                                                *)

Waits(i, o) == i \in Reported \ reopened /\ report[i].order = o /\ Untreated(i)

\* Whoever does not date a report that he resolves has seen a date on it.
DraftSound(d) ==
    draft[d].at = "treat" =>
        /\ draft[d].on \in Reported
        /\ draft[d].status = "RESOLVED" => draft[d].dates \/ report[draft[d].on].dated

FeedbackInv ==
    /\ report \in [ReportIds -> Report]
    /\ draft \in [Writers -> Draft]
    /\ \A o \in OrderIds : \A i, j \in ReportIds : Waits(i, o) /\ Waits(j, o) => i = j
    /\ \A i \in Reported : report[i].order # NoOrder
    /\ ResolvedIsDated
    /\ \A d \in Writers : DraftSound(d)

LEMMA FeedbackInvInit == FeedbackInit => FeedbackInv
BY DEF FeedbackInit, FeedbackInv, Report, NoReport, Draft, NoDraft, ReportStatuses, Waits,
       Reported, ResolvedIsDated, DraftSound

LEMMA FeedbackInvNext == FeedbackInv /\ [FeedbackNext]_feedbackVars => FeedbackInv'
<1> SUFFICES ASSUME FeedbackInv, [FeedbackNext]_feedbackVars
             PROVE  FeedbackInv'
    OBVIOUS
<1>0. report \in [ReportIds -> Report] /\ draft \in [Writers -> Draft]
    BY DEF FeedbackInv
<1>a. NoReport \in Report /\ NoDraft \in Draft /\ NoDraft.at = "idle"
    BY DEF NoReport, NoDraft, Report, Draft, ReportStatuses
<1>b. ASSUME UNCHANGED <<report, reopened>>, draft' \in [Writers -> Draft],
             \A d \in Writers : draft'[d] = draft[d] \/ DraftSound(d)'
      PROVE  FeedbackInv'
    <2>1. Reported' = Reported
        BY <1>b DEF Reported
    <2>2. \A d \in Writers : DraftSound(d)'
        BY <1>b, <2>1 DEF FeedbackInv, DraftSound
    <2>3. \A o \in OrderIds : \A i, j \in ReportIds : Waits(i, o)' /\ Waits(j, o)' => i = j
        BY <1>b, <2>1 DEF FeedbackInv, Waits, Untreated
    <2>4. ResolvedIsDated'
        BY <1>b, <2>1 DEF FeedbackInv, ResolvedIsDated, Untreated
    <2>5. \A i \in Reported' : report'[i].order # NoOrder
        BY <1>b, <2>1 DEF FeedbackInv
    <2> QED
        BY <1>0, <1>b, <2>2, <2>3, <2>4, <2>5 DEF FeedbackInv
<1>1. CASE UNCHANGED feedbackVars
    BY <1>0, <1>1, <1>b DEF feedbackVars
<1>2. CASE CreateReport
    <2>1. PICK o \in OrderIds, i \in ReportIds \ Reported :
              /\ ~ \E j \in Reported : report[j].order = o /\ Untreated(j)
              /\ report' = [report EXCEPT ![i] = [NoReport EXCEPT !.order = o]]
        BY <1>2 DEF CreateReport
    <2>2. PICK r : r = [NoReport EXCEPT !.order = o]
        OBVIOUS
    <2>3. r \in Report /\ r.order = o /\ r.status = "OPEN" /\ r # NoReport
        <3>1. o # NoOrder
            BY FeedbackAssumption
        <3> QED
            BY <2>2, <3>1 DEF Report, NoReport, ReportStatuses
    <2>4. /\ report' \in [ReportIds -> Report] /\ report'[i] = r
          /\ \A j \in ReportIds \ {i} : report'[j] = report[j]
          /\ UNCHANGED <<draft, reopened>>
        BY <1>0, <1>2, <2>1, <2>2, <2>3 DEF CreateReport
    <2>5. Reported' = Reported \cup {i} /\ i \notin Reported
        BY <2>3, <2>4 DEF Reported
    <2>6. \A d \in Writers : DraftSound(d)'
        BY <2>4, <2>5 DEF FeedbackInv, DraftSound, Reported
    <2>7. \A p \in OrderIds : \A j, k \in ReportIds : Waits(j, p)' /\ Waits(k, p)' => j = k
        BY <2>1, <2>3, <2>4, <2>5 DEF FeedbackInv, Waits, Untreated
    <2>8. ResolvedIsDated'
        BY <2>3, <2>4, <2>5 DEF FeedbackInv, ResolvedIsDated, Untreated, Reported
    <2>9. \A j \in Reported' : report'[j].order # NoOrder
        BY <2>3, <2>4, <2>5, FeedbackAssumption DEF FeedbackInv, Reported
    <2> QED
        BY <1>0, <2>4, <2>6, <2>7, <2>8, <2>9 DEF FeedbackInv
<1>3. ASSUME NEW d \in Writers, ReadForTreat(d) PROVE FeedbackInv'
    <2>1. PICK i \in Reported, s \in ReportStatuses :
              draft' = [draft EXCEPT ![d] =
                  [at |-> "treat", on |-> i, status |-> s,
                   dates |-> s = "RESOLVED" /\ ~report[i].dated]]
        BY <1>3 DEF ReadForTreat
    <2>2. PICK b \in BOOLEAN : b = (s = "RESOLVED" /\ ~report[i].dated)
        OBVIOUS
    <2>3. PICK q : q = [at |-> "treat", on |-> i, status |-> s, dates |-> b]
        OBVIOUS
    <2>4. q \in Draft /\ q.on = i /\ q.status = s /\ q.dates = b
        BY <2>3 DEF Draft, Reported
    <2>5. draft' = [draft EXCEPT ![d] = q] /\ UNCHANGED <<report, reopened>>
        BY <1>3, <2>1, <2>2, <2>3 DEF ReadForTreat
    <2>6. draft' \in [Writers -> Draft] /\ draft'[d] = q
          /\ \A e \in Writers \ {d} : draft'[e] = draft[e]
        BY <1>0, <2>4, <2>5
    <2>7. Reported' = Reported
        BY <2>5 DEF Reported
    <2>8. DraftSound(d)'
        BY <2>2, <2>4, <2>5, <2>6, <2>7 DEF DraftSound
    <2> QED
        BY <1>b, <2>5, <2>6, <2>8
<1>4. ASSUME NEW d \in Writers, Treat(d) PROVE FeedbackInv'
    <2>1. PICK q \in Draft : q = draft[d] /\ q.at = "treat"
        BY <1>0, <1>4 DEF Treat
    <2>2. PICK i \in Reported : i = q.on
        BY <2>1 DEF FeedbackInv, DraftSound
    <2>3. PICK s \in ReportStatuses : s = q.status
        BY DEF Draft
    <2>4. i \in ReportIds /\ report[i] \in Report
        BY <1>0 DEF Reported
    <2>5. /\ report' = [report EXCEPT ![i].status = s, ![i].dated = @ \/ q.dates]
          /\ reopened' = IF s = "RESOLVED" THEN reopened \ {i}
                         ELSE IF Untreated(i) THEN reopened ELSE reopened \cup {i}
          /\ draft' = [draft EXCEPT ![d] = NoDraft]
        BY <1>4, <2>1, <2>2, <2>3 DEF Treat
    <2>6. /\ report'[i] \in Report /\ report'[i].status = s
          /\ report'[i].order = report[i].order
          /\ report'[i].dated <=> (report[i].dated \/ q.dates)
          /\ report' \in [ReportIds -> Report]
          /\ \A j \in ReportIds \ {i} : report'[j] = report[j]
        BY <1>0, <2>4, <2>5 DEF Report, Draft
    <2>7. Reported' = Reported
        <3>1. report[i].order # NoOrder
            BY DEF FeedbackInv
        <3> QED
            BY <2>4, <2>6, <3>1 DEF Reported, NoReport
    <2>8. /\ draft' \in [Writers -> Draft] /\ draft'[d] = NoDraft
          /\ \A e \in Writers \ {d} : draft'[e] = draft[e]
        BY <1>0, <1>a, <2>5
    <2>9. \A e \in Writers : DraftSound(e)'
        BY <1>a, <2>6, <2>7, <2>8 DEF FeedbackInv, DraftSound, Reported
    <2>10. \A p \in OrderIds : \A j, k \in ReportIds : Waits(j, p)' /\ Waits(k, p)' => j = k
        BY <2>3, <2>5, <2>6, <2>7 DEF FeedbackInv, Waits, Untreated
    <2>11. s = "RESOLVED" => report'[i].dated
        BY <2>1, <2>2, <2>3, <2>6 DEF FeedbackInv, DraftSound
    <2>12. ResolvedIsDated'
        BY <2>6, <2>7, <2>11 DEF FeedbackInv, ResolvedIsDated, Untreated, Reported
    <2>13. \A j \in Reported' : report'[j].order # NoOrder
        BY <2>4, <2>6, <2>7 DEF FeedbackInv, Reported
    <2> QED
        BY <2>6, <2>8, <2>9, <2>10, <2>12, <2>13 DEF FeedbackInv
<1>5. ASSUME NEW d \in Writers, ReadForReview(d) PROVE FeedbackInv'
    <2>1. PICK o \in OrderIds :
              draft' = [draft EXCEPT ![d] = [NoDraft EXCEPT !.at = "review", !.on = o]]
        BY <1>5 DEF ReadForReview
    <2>2. PICK q : q = [NoDraft EXCEPT !.at = "review", !.on = o]
        OBVIOUS
    <2>3. q \in Draft /\ q.at = "review"
        BY <2>2 DEF Draft, NoDraft, ReportStatuses
    <2>4. UNCHANGED <<report, reopened>>
        BY <1>5 DEF ReadForReview
    <2> QED
        BY <1>0, <1>b, <2>1, <2>2, <2>3, <2>4 DEF DraftSound
<1>6. ASSUME NEW d \in Writers, CreateReview(d) PROVE FeedbackInv'
    BY <1>0, <1>6, <1>a, <1>b DEF CreateReview, DraftSound
<1>7. CASE UpdateReview \/ OrderGoesOn
    BY <1>0, <1>7, <1>b DEF UpdateReview, OrderGoesOn
<1> QED
    BY <1>1, <1>2, <1>3, <1>4, <1>5, <1>6, <1>7 DEF FeedbackNext

\* Of the reports of an order one waits at a time, but for those put back to work, and
\* each one that is resolved has its date (reports.service.ts:49, 215).
THEOREM ReportsStayInOrder == FeedbackSpec => []ReportsInOrder
<1>1. FeedbackInv => ReportsInOrder
    <2> SUFFICES ASSUME FeedbackInv PROVE OneReportAtATime
        BY DEF FeedbackInv, ReportsInOrder
    <2> SUFFICES ASSUME NEW o \in OrderIds
                 PROVE  Cardinality({i \in Reported \ reopened :
                                        report[i].order = o /\ Untreated(i)}) <= 1
        BY DEF OneReportAtATime
    <2>1. PICK S : S = {i \in Reported \ reopened : report[i].order = o /\ Untreated(i)}
        OBVIOUS
    <2>2. \A i, j \in S : i = j
        BY <2>1 DEF FeedbackInv, Waits, Reported
    <2>3. S = {} \/ \E x : S = {x}
        BY <2>2
    <2>4. Cardinality(S) = 0 \/ Cardinality(S) = 1
        BY <2>3, FS_EmptySet, FS_Singleton
    <2> QED
        BY <2>1, <2>4
<1> QED
    BY FeedbackInvInit, FeedbackInvNext, <1>1, PTL DEF FeedbackSpec

-----------------------------------------------------------------------------
(* The reminders of every third day.                                       *)

\* What is written down is as old as the days since the last reminder, but for the
\* hours of the two passes; a reminder that was not written down only makes it older.
OldEnough(s) ==
    \/ age[s] = Oldest
    \/ \E hour \in Offsets : age[s] >= 24 * days[s] + offset - hour

YoungEnough(s) ==
    \/ s \in forgotten \/ days[s] >= IntervalDays
    \/ \E hour \in Offsets : age[s] <= 24 * days[s] + offset - hour

\* A pass that goes on has before it, or in its batch, those whom it must remind.
PassSound ==
    /\ pass.at = "due" => pass.cursor = 0
    /\ \A s \in pass.batch : age[s] >= EligibleAfter
    /\ pass.at = "running" =>
           \A s \in active \ excused :
               days[s] >= IntervalDays => s \in pass.batch \/ s > pass.cursor

ReminderInv ==
    /\ ReminderTypeOK
    /\ \A s \in StudentIds : OldEnough(s) /\ YoungEnough(s)
    /\ PassSound
    /\ RemindedEveryThirdDay

LEMMA ReminderHours ==
    /\ StudentCount \in Nat /\ IntervalDays \in Nat \ {0} /\ ToleranceHours \in Nat
    /\ BatchSize \in Nat \ {0} /\ PassLimit \in Nat
    /\ Offsets \subseteq 0 .. 23 /\ Offsets # {} /\ StudentIds \subseteq Nat
    /\ EligibleAfter \in Int /\ EligibleAfter <= Oldest /\ LongAgo > IntervalDays
    /\ LongAgo \in Nat /\ Oldest \in Nat
BY ReminderAssumption DEF StudentIds, EligibleAfter, Oldest, LongAgo

LEMMA OffsetTyped == ASSUME NEW hour \in Offsets PROVE hour \in 0 .. 23
BY ReminderAssumption

LEMMA ReminderInvInit == ReminderInit => ReminderInv
<1> SUFFICES ASSUME ReminderInit PROVE ReminderInv
    OBVIOUS
<1> USE ReminderHours
<1>1. ReminderTypeOK
    BY DEF ReminderInit, ReminderTypeOK, Pass
<1>2. \A s \in StudentIds : OldEnough(s) /\ YoungEnough(s)
    BY DEF ReminderInit, OldEnough, YoungEnough
<1>3. PassSound /\ RemindedEveryThirdDay
    BY DEF ReminderInit, PassSound, RemindedEveryThirdDay, NeverEarly, OnTheThirdDay
<1> QED
    BY <1>1, <1>2, <1>3 DEF ReminderInv

\* On the third day a student is eligible, and not before.
LEMMA DueIsEligible ==
    ASSUME ReminderInv, NEW s \in StudentIds, days[s] >= IntervalDays
    PROVE  age[s] >= EligibleAfter
<1> USE ReminderHours
<1>1. age[s] \in Int /\ days[s] \in Int /\ offset \in Offsets
    BY DEF ReminderInv, ReminderTypeOK
<1>2. CASE age[s] = Oldest
    BY <1>2
<1>3. CASE \E hour \in Offsets : age[s] >= 24 * days[s] + offset - hour
    <2>1. PICK hour \in Offsets : age[s] >= 24 * days[s] + offset - hour
        BY <1>3
    <2>2. hour - offset <= ToleranceHours
        BY <1>1, HoursAssumption
    <2>3. hour \in Int /\ offset \in Int
        BY <1>1, OffsetTyped
    <2> QED
        BY <1>1, <2>1, <2>2, <2>3 DEF EligibleAfter
<1> QED
    BY <1>2, <1>3 DEF ReminderInv, OldEnough

LEMMA EligibleIsNotEarly ==
    ASSUME ReminderInv, NEW s \in StudentIds, age[s] >= EligibleAfter
    PROVE  ~ TooEarly(s)
<1> USE ReminderHours
<1> SUFFICES ASSUME s \notin forgotten, days[s] < IntervalDays PROVE FALSE
    BY DEF TooEarly
<1>1. age[s] \in Int /\ days[s] \in Int /\ offset \in Offsets
    BY DEF ReminderInv, ReminderTypeOK
<1>2. PICK hour \in Offsets : age[s] <= 24 * days[s] + offset - hour
    BY <1>1 DEF ReminderInv, YoungEnough
<1>3. offset - hour < 24 - ToleranceHours
    BY <1>1, HoursAssumption
<1>4. hour \in Int /\ offset \in Int
    BY <1>1, OffsetTyped
<1> QED
    BY <1>1, <1>2, <1>3, <1>4 DEF EligibleAfter

\* The students of a batch come before all those who are left.
LEMMA BatchComesFirst ==
    ASSUME NEW S \in SUBSET StudentIds, S # {}, NEW n \in Nat \ {0}
    PROVE  LET batch == FirstOf(S, n)
               last  == CHOOSE s \in batch : \A t \in batch : t <= s
           IN  last \in batch /\ batch \subseteq S /\ \A s \in S \ batch : s > last
<1> DEFINE batch == FirstOf(S, n)
           last  == CHOOSE s \in batch : \A t \in batch : t <= s
           Before(x) == {t \in S : t < x}
<1>1. IsFiniteSet(S) /\ S \subseteq Nat
    <2>1. IsFiniteSet(StudentIds)
        BY ReminderHours, FS_Interval DEF StudentIds
    <2> QED
        BY <2>1, ReminderHours, FS_Subset
<1>2. batch \subseteq S /\ \A x \in S : x \in batch <=> Cardinality(Before(x)) < n
    BY DEF FirstOf
<1>3. batch # {}
    <2> DEFINE R == {e \in S \X S : e[2] < e[1]}
    <2>1. \A x \in S : <<x, x>> \notin R
        BY <1>1
    <2>2. \A x, y, z \in S : <<x, y>> \in R /\ <<y, z>> \in R => <<x, z>> \in R
        BY <1>1
    <2>3. PICK x \in S : \A y \in S : <<x, y>> \notin R
        <3> HIDE DEF R
        <3> QED
            BY <1>1, <2>1, <2>2, FiniteHasMaximal
    <2>4. Before(x) = {}
        BY <2>3
    <2>5. Cardinality(Before(x)) = 0
        BY <2>4, FS_EmptySet
    <2> QED
        BY <1>2, <2>5
<1>4. last \in batch /\ \A t \in batch : t <= last
    <2> DEFINE R == {e \in batch \X batch : e[1] < e[2]}
    <2>1. batch \subseteq Nat /\ IsFiniteSet(batch)
        BY <1>1, <1>2, FS_Subset
    <2> HIDE DEF batch
    <2>2. \A x \in batch : <<x, x>> \notin R
        BY <2>1
    <2>3. \A x, y, z \in batch : <<x, y>> \in R /\ <<y, z>> \in R => <<x, z>> \in R
        BY <2>1
    <2>4. PICK x \in batch : \A y \in batch : <<x, y>> \notin R
        <3> HIDE DEF R
        <3> QED
            BY <1>3, <2>1, <2>2, <2>3, FiniteHasMaximal
    <2>5. ASSUME NEW t \in batch PROVE t <= x
        <3>1. <<x, t>> \notin R
            BY <2>4
        <3>2. ~ (x < t)
            BY <3>1
        <3> QED
            BY <2>1, <3>2
    <2> QED
        BY <2>5
<1>5. ASSUME NEW s \in S \ batch, ~ (s > last) PROVE FALSE
    <2>1. last \in S /\ last \in batch /\ last \in Nat /\ s \in Nat /\ s # last
        BY <1>1, <1>2, <1>4, <1>5
    <2>2. Before(s) \subseteq Before(last)
        <3> HIDE DEF last, batch
        <3>1. ASSUME NEW x \in S, x < s PROVE x < last
            <4>1. x \in Nat
                BY <1>1
            <4> QED
                BY <1>5, <2>1, <3>1, <4>1
        <3> QED
            BY <3>1
    <2>3. IsFiniteSet(Before(last))
        BY <1>1, FS_Subset
    <2>4. /\ Cardinality(Before(s)) <= Cardinality(Before(last))
          /\ Cardinality(Before(s)) \in Nat /\ Cardinality(Before(last)) \in Nat
        BY <2>2, <2>3, FS_Subset, FS_CardinalityType
    <2>5. Cardinality(Before(last)) < n /\ ~ (Cardinality(Before(s)) < n)
        BY <1>2, <1>5, <2>1
    <2> QED
        BY <2>4, <2>5
<1> QED
    BY <1>2, <1>4, <1>5

\* What is proved of the rows stays true of a step that leaves them alone.
LEMMA RowsAlone ==
    ASSUME ReminderInv, UNCHANGED <<offset, age, days, forgotten>>
    PROVE  \A s \in StudentIds : OldEnough(s)' /\ YoungEnough(s)'
BY DEF ReminderInv, OldEnough, YoungEnough

LEMMA PassMoves ==
    ASSUME ReminderInv, StartPass \/ ReadBatch \/ FinishPass \/ PassDies \/ NoPassToday
    PROVE  ReminderInv'
<1> USE ReminderHours
<1>1. /\ UNCHANGED <<offset, age, active, days, early, forgotten>>
      /\ excused \subseteq excused'
    BY DEF StartPass, ReadBatch, FinishPass, PassDies, NoPassToday
<1>2. excused' \subseteq StudentIds
    BY DEF StartPass, ReadBatch, FinishPass, PassDies, NoPassToday, Ahead, Due, ReminderInv,
           ReminderTypeOK
<1>3. pass \in Pass /\ active \subseteq StudentIds /\ excused \subseteq StudentIds
      /\ days \in [StudentIds -> 0 .. LongAgo]
    BY DEF ReminderInv, ReminderTypeOK
<1>4. /\ pass' \in Pass /\ PassSound' /\ OnTheThirdDay'
    <2>1. CASE StartPass
        <3>1. /\ pass.at = "due" /\ pass.cursor = 0 /\ UNCHANGED excused
              /\ pass' = [pass EXCEPT !.at = "running"]
            BY <2>1 DEF StartPass, ReminderInv, PassSound
        <3>2. \A s \in StudentIds : s > 0
            BY DEF StudentIds
        <3> QED
            BY <1>1, <1>3, <3>1, <3>2 DEF Pass, ReminderInv, PassSound, OnTheThirdDay
    <2>2. CASE ReadBatch
        <3> DEFINE n == AtMost(BatchSize, PassLimit - pass.read)
                   batch == FirstOf(Ahead, n)
                   last == CHOOSE s \in batch : \A t \in batch : t <= s
        <3>1. /\ pass.at = "running" /\ pass.batch = {} /\ Ahead # {}
              /\ pass.read < PassLimit /\ UNCHANGED excused
              /\ pass' = [pass EXCEPT !.batch = batch,
                                      !.read = pass.read + Cardinality(batch),
                                      !.cursor = last]
            BY <2>2 DEF ReadBatch
        <3>2. n \in Nat \ {0}
            BY <1>3, <3>1 DEF AtMost, Pass
        <3>3. Ahead \in SUBSET StudentIds
            BY DEF Ahead
        <3> HIDE DEF n
        <3>4. last \in batch /\ batch \subseteq Ahead /\ \A s \in Ahead \ batch : s > last
            BY ONLY <3>1, <3>2, <3>3, BatchComesFirst
        <3>5. Cardinality(batch) \in Nat
            <4>1. IsFiniteSet(StudentIds)
                BY FS_Interval DEF StudentIds
            <4> QED
                BY <3>3, <3>4, <4>1, FS_Subset, FS_CardinalityType
        <3> HIDE DEF batch, last
        <3>6. /\ pass'.batch = batch /\ pass'.cursor = last /\ pass'.at = "running"
              /\ pass' \in Pass
            <4>1. last \in StudentIds /\ batch \in SUBSET StudentIds
                BY <3>3, <3>4
            <4>2. pass.read \in Nat /\ pass.read + Cardinality(batch) \in Nat
                BY <1>3, <3>5 DEF Pass
            <4> QED
                BY <1>3, <3>1, <4>1, <4>2 DEF Pass
        <3>7. \A s \in batch : age[s] >= EligibleAfter
            BY <3>4 DEF Ahead, Eligible
        <3>8. ASSUME NEW s \in active \ excused, days[s] >= IntervalDays
              PROVE  s \in batch \/ s > last
            <4>1. s \in StudentIds /\ s > pass.cursor
                BY <1>3, <3>1, <3>8 DEF ReminderInv, PassSound
            <4>2. s \in Ahead
                BY <3>8, <4>1, DueIsEligible DEF Ahead, Eligible
            <4> QED
                BY <3>4, <4>2
        <3> QED
            BY <1>1, <3>1, <3>6, <3>7, <3>8 DEF PassSound, OnTheThirdDay
    <2>3. CASE FinishPass
        <3>1. /\ pass.at = "running" /\ pass.batch = {}
              /\ pass' = [pass EXCEPT !.at = "over"]
              /\ excused' = excused \cup Ahead \/ Ahead = {}
            BY <2>3 DEF FinishPass
        <3>2. ASSUME NEW s \in active \ excused, days[s] >= IntervalDays PROVE s \in Ahead
            <4>1. s \in StudentIds /\ s > pass.cursor
                BY <1>3, <3>1, <3>2 DEF ReminderInv, PassSound
            <4> QED
                BY <3>2, <4>1, DueIsEligible DEF Ahead, Eligible
        <3>3. \A s \in active \ excused' : days[s] < IntervalDays
            <4> SUFFICES ASSUME NEW s \in active \ excused' PROVE days[s] < IntervalDays
                OBVIOUS
            <4>1. ~ (days[s] >= IntervalDays)
                BY <1>1, <3>1, <3>2
            <4>2. days[s] \in Int
                BY <1>3
            <4> QED
                BY <4>1, <4>2
        <3> QED
            BY <1>1, <1>3, <3>1, <3>3 DEF Pass, ReminderInv, PassSound, OnTheThirdDay
    <2>4. CASE PassDies \/ NoPassToday
        <3>1. /\ pass' \in Pass /\ pass'.at = "over" /\ pass'.batch \subseteq pass.batch
              /\ excused' = excused \cup Due
            BY <1>3, <2>4 DEF PassDies, NoPassToday, Pass
        <3>2. \A s \in active \ excused' : days[s] < IntervalDays
            BY <1>3, <3>1 DEF Due
        <3> QED
            BY <1>1, <3>1, <3>2 DEF ReminderInv, PassSound, OnTheThirdDay
    <2> QED
        BY <2>1, <2>2, <2>3, <2>4
<1>5. ReminderTypeOK'
    BY <1>1, <1>2, <1>4 DEF ReminderInv, ReminderTypeOK
<1>6. NeverEarly'
    BY <1>1 DEF ReminderInv, RemindedEveryThirdDay, NeverEarly
<1> QED
    BY <1>1, <1>4, <1>5, <1>6, RowsAlone DEF ReminderInv, RemindedEveryThirdDay

LEMMA RemindKeeps ==
    ASSUME ReminderInv, NEW s \in StudentIds, Remind(s)
    PROVE  ReminderInv'
<1> USE ReminderHours
<1>1. /\ pass.at = "running" /\ s \in pass.batch
      /\ pass' = [pass EXCEPT !.batch = pass.batch \ {s}]
      /\ UNCHANGED <<offset, active>>
    BY DEF Remind
<1>2. ~ TooEarly(s)
    BY <1>1, EligibleIsNotEarly DEF ReminderInv, PassSound
<1>3. early' = early
    BY <1>2 DEF Remind
<1>4. \/ /\ age' = [age EXCEPT ![s] = 0] /\ forgotten' = forgotten \ {s}
         /\ days' = [days EXCEPT ![s] = 0] /\ excused' = excused \ {s}
      \/ /\ age' = age /\ forgotten' = forgotten \cup {s}
         /\ days' = [days EXCEPT ![s] = 0] /\ excused' = excused \ {s}
      \/ /\ UNCHANGED <<age, days, forgotten>> /\ excused' = excused \cup {s}
    BY DEF Remind
<1>5. /\ pass \in Pass /\ age \in [StudentIds -> 0 .. Oldest]
      /\ days \in [StudentIds -> 0 .. LongAgo] /\ offset \in Offsets /\ offset \in 0 .. 23
      /\ forgotten \subseteq StudentIds /\ excused \subseteq StudentIds
    BY OffsetTyped DEF ReminderInv, ReminderTypeOK
<1>6. ReminderTypeOK'
    BY <1>1, <1>3, <1>4, <1>5 DEF ReminderInv, ReminderTypeOK, Pass
<1>7. ASSUME NEW t \in StudentIds \ {s}
      PROVE  /\ age'[t] = age[t] /\ days'[t] = days[t]
             /\ t \in forgotten' <=> t \in forgotten
             /\ t \in excused' <=> t \in excused
    BY <1>4, <1>5, <1>7
<1>8. /\ \/ age'[s] = 0 /\ days'[s] = 0
         \/ days'[s] = 0 /\ s \in forgotten' /\ age'[s] = age[s]
         \/ s \in excused' /\ age'[s] = age[s] /\ days'[s] = days[s]
               /\ forgotten' = forgotten
      /\ s \in excused' \/ days'[s] = 0
    BY <1>4, <1>5
<1>9. ASSUME NEW t \in StudentIds PROVE OldEnough(t)' /\ YoungEnough(t)'
    <2>1. CASE t # s
        BY <1>1, <1>7, <2>1 DEF ReminderInv, OldEnough, YoungEnough
    <2>2. CASE t = s
        <3>1. age[s] \in Nat
            BY <1>5
        <3>2. CASE days'[s] = 0 /\ (age'[s] = 0 \/ (s \in forgotten' /\ age'[s] = age[s]))
            <4>1. \E hour \in Offsets : age'[s] >= 24 * days'[s] + offset' - hour
                BY <1>1, <1>5, <3>1, <3>2
            <4>2. \/ s \in forgotten'
                  \/ \E hour \in Offsets : age'[s] <= 24 * days'[s] + offset' - hour
                BY <1>1, <1>5, <3>1, <3>2
            <4> QED
                BY <2>2, <4>1, <4>2 DEF OldEnough, YoungEnough
        <3>3. CASE age'[s] = age[s] /\ days'[s] = days[s] /\ forgotten' = forgotten
            BY <1>1, <2>2, <3>3 DEF ReminderInv, OldEnough, YoungEnough
        <3>4. \/ days'[s] = 0 /\ (age'[s] = 0 \/ (s \in forgotten' /\ age'[s] = age[s]))
              \/ age'[s] = age[s] /\ days'[s] = days[s] /\ forgotten' = forgotten
            BY <1>8
        <3> QED
            BY <3>2, <3>3, <3>4
    <2> QED
        BY <2>1, <2>2
<1>10. PassSound'
    <2>1. /\ pass'.at = "running" /\ pass'.cursor = pass.cursor
          /\ pass'.batch = pass.batch \ {s}
        BY <1>1, <1>5 DEF Pass
    <2>2. \A t \in pass'.batch : age'[t] >= EligibleAfter
        BY <1>5, <1>7, <2>1 DEF ReminderInv, PassSound, Pass
    <2>3. ASSUME NEW t \in active \ excused', days'[t] >= IntervalDays
          PROVE  t \in pass'.batch \/ t > pass'.cursor
        <3>1. t # s
            BY <1>8, <2>3
        <3>2. t \in StudentIds
            BY DEF ReminderInv, ReminderTypeOK
        <3> QED
            BY <1>1, <1>7, <2>1, <2>3, <3>1, <3>2 DEF ReminderInv, PassSound
    <2> QED
        BY <1>1, <2>1, <2>2, <2>3 DEF PassSound
<1>11. RemindedEveryThirdDay'
    <2>1. pass'.at = "running"
        BY <1>1, <1>5 DEF Pass
    <2> QED
        BY <1>3, <2>1 DEF ReminderInv, RemindedEveryThirdDay, NeverEarly, OnTheThirdDay
<1> QED
    BY <1>6, <1>9, <1>10, <1>11 DEF ReminderInv

LEMMA NextDayKeeps ==
    ASSUME ReminderInv, NextDay
    PROVE  ReminderInv'
<1> USE ReminderHours
<1>1. PICK hour \in Offsets :
          /\ offset' = hour
          /\ age' = [s \in StudentIds |-> AtMost(age[s] + 24 + hour - offset, Oldest)]
    BY DEF NextDay
<1>2. /\ days' = [s \in StudentIds |-> AtMost(days[s] + 1, LongAgo)]
      /\ pass' = [at |-> "due", cursor |-> 0, read |-> 0, batch |-> {}]
      /\ UNCHANGED <<active, early, forgotten, excused>>
    BY DEF NextDay
<1>3. hour \in 0 .. 23 /\ offset \in 0 .. 23
    BY OffsetTyped DEF ReminderInv, ReminderTypeOK
<1>4. ASSUME NEW s \in StudentIds
      PROVE  /\ age'[s] \in 0 .. Oldest /\ days'[s] \in 0 .. LongAgo
             /\ OldEnough(s)' /\ YoungEnough(s)'
    <2>1. age[s] \in 0 .. Oldest /\ days[s] \in 0 .. LongAgo
        BY DEF ReminderInv, ReminderTypeOK
    <2>2. /\ age'[s] = AtMost(age[s] + 24 + hour - offset, Oldest)
          /\ days'[s] = AtMost(days[s] + 1, LongAgo)
        BY <1>1, <1>2
    <2>3. age'[s] \in 0 .. Oldest /\ days'[s] \in 0 .. LongAgo
        BY <1>3, <2>1, <2>2 DEF AtMost
    <2>4. OldEnough(s)'
        <3>1. CASE age[s] = Oldest
            BY <1>3, <2>2, <3>1 DEF AtMost, OldEnough
        <3>2. CASE \E from \in Offsets : age[s] >= 24 * days[s] + offset - from
            <4>1. PICK from \in Offsets : age[s] >= 24 * days[s] + offset - from
                BY <3>2
            <4>2. from \in 0 .. 23
                BY OffsetTyped
            <4>3. age'[s] = Oldest \/ age'[s] >= 24 * days'[s] + hour - from
                BY <1>3, <2>1, <2>2, <4>1, <4>2 DEF AtMost
            <4> QED
                BY <1>1, <4>3 DEF OldEnough
        <3> QED
            BY <3>1, <3>2 DEF ReminderInv, OldEnough
    <2>5. YoungEnough(s)'
        <3>1. CASE s \in forgotten \/ days[s] >= IntervalDays
            BY <1>2, <2>1, <2>2, <3>1 DEF AtMost, YoungEnough
        <3>2. CASE \E from \in Offsets : age[s] <= 24 * days[s] + offset - from
            <4>1. PICK from \in Offsets : age[s] <= 24 * days[s] + offset - from
                BY <3>2
            <4>2. from \in 0 .. 23
                BY OffsetTyped
            <4>3. \/ days'[s] >= IntervalDays
                  \/ age'[s] <= 24 * days'[s] + hour - from
                BY <1>3, <2>1, <2>2, <4>1, <4>2 DEF AtMost
            <4> QED
                BY <1>1, <4>3 DEF YoungEnough
        <3> QED
            BY <3>1, <3>2 DEF ReminderInv, YoungEnough
    <2> QED
        BY <2>3, <2>4, <2>5
<1>5. ReminderTypeOK'
    BY <1>1, <1>2, <1>4 DEF ReminderInv, ReminderTypeOK, Pass
<1>6. PassSound' /\ RemindedEveryThirdDay'
    BY <1>2 DEF ReminderInv, PassSound, RemindedEveryThirdDay, NeverEarly, OnTheThirdDay
<1> QED
    BY <1>4, <1>5, <1>6 DEF ReminderInv

LEMMA ReminderInvNext == ReminderInv /\ [ReminderNext]_reminderVars => ReminderInv'
<1> SUFFICES ASSUME ReminderInv, [ReminderNext]_reminderVars PROVE ReminderInv'
    OBVIOUS
<1>1. CASE UNCHANGED reminderVars
    <2>1. UNCHANGED <<offset, age, active, pass, days, early, forgotten, excused>>
        BY <1>1 DEF reminderVars
    <2>2. ReminderTypeOK' /\ PassSound' /\ RemindedEveryThirdDay'
        BY <2>1 DEF ReminderInv, ReminderTypeOK, PassSound, RemindedEveryThirdDay, NeverEarly,
                    OnTheThirdDay
    <2> QED
        BY <2>1, <2>2, RowsAlone DEF ReminderInv
<1>2. ASSUME NEW s \in StudentIds, SuspendOrLift(s) PROVE ReminderInv'
    <2>1. /\ UNCHANGED <<offset, age, pass, days, early, forgotten>>
          /\ excused' = excused \cup {s} /\ active' \subseteq active \cup {s}
        BY <1>2 DEF SuspendOrLift
    <2>2. ReminderTypeOK'
        BY <2>1 DEF ReminderInv, ReminderTypeOK
    <2>3. \A t \in active' \ excused' : t \in active \ excused
        BY <2>1
    <2>4. PassSound' /\ RemindedEveryThirdDay'
        BY <2>1, <2>3 DEF ReminderInv, PassSound, RemindedEveryThirdDay, NeverEarly,
                          OnTheThirdDay
    <2> QED
        BY <2>1, <2>2, <2>4, RowsAlone DEF ReminderInv
<1> QED
    BY <1>1, <1>2, PassMoves, RemindKeeps, NextDayKeeps DEF ReminderNext

\* With any number of students, batches, limits and hours of passes that vary as little
\* as the comment of the constants says: nobody is reminded twice within three days, and
\* after the pass of the third day everyone has been, unless something kept him from it
\* (scheduling-reminders.constants.ts:8-10).
THEOREM RemindersKeepTime == ReminderSpec => []RemindedEveryThirdDay
<1>1. ReminderInv => RemindedEveryThirdDay
    BY DEF ReminderInv
<1> QED
    BY <1>1, ReminderInvInit, ReminderInvNext, PTL DEF ReminderSpec

=============================================================================
