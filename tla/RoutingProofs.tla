---------------------------- MODULE RoutingProofs ---------------------------
(***************************************************************************)
(* Theorems about Routing, for any channels, names, routes, number of      *)
(* gateway events and handlers.                                            *)
(***************************************************************************)
EXTENDS Routing, SequenceTheorems, TLAPS

\* The types, with what TypeOK does not say of the sequences.
Typed ==
    /\ guilds \subseteq Guilds
    /\ chans \subseteq ChEntry /\ OneName(chans)
    /\ \A c \in chans : GuildOf[c.id] \in guilds
    /\ changes \in 0 .. MaxEvents /\ silent \in 0 .. changes
    /\ builds \in Seq([pc : {"scan", "store", "done"}, scan : Nat,
                       from : SUBSET ChEntry])
    /\ w2d \subseteq ChEntry /\ d2w \subseteq ChEntry
    /\ late \in BOOLEAN
    /\ task \in [Handlers -> [kind : Kinds,
                              todo : SUBSET ((DOMAIN Routes) \X ChEntry),
                              seen : SUBSET (Destinations \cup {Say}),
                              out : Seq(Destinations \cup {Say})]]

\* A build lists the channels after its own event: if the last change had a handler,
\* the newest build has them still to list or has listed them.  A listing that is as
\* new as the last change is of the channels as they are.
Listed ==
    /\ \A e \in DOMAIN builds :
         /\ builds[e].scan <= changes
         /\ builds[e].pc # "scan" /\ builds[e].scan = changes => builds[e].from = chans
    /\ silent < changes =>
         /\ builds # <<>>
         /\ \/ builds[Len(builds)].pc = "scan"
            \/ builds[Len(builds)].scan = changes

\* Unless one was late, the tables come from the newest listing that was stored.
Newest ==
    /\ (\A e \in DOMAIN builds : builds[e].pc # "done") => d2w = {}
    /\ ~late /\ (\E e \in DOMAIN builds : builds[e].pc = "done") =>
         \E e \in DOMAIN builds :
           /\ builds[e].pc = "done" /\ d2w = builds[e].from
           /\ \A f \in DOMAIN builds :
                builds[f].pc = "done" => builds[f].scan <= builds[e].scan
    /\ builds = <<>> => guilds = {} /\ chans = {}

\* What a handler has written it has seen, and a command has one destination.
Noted ==
    \A h \in Handlers :
      /\ \A i \in 1 .. Len(task[h].out) : task[h].out[i] \in task[h].seen
      /\ \A i, j \in 1 .. Len(task[h].out) :
           task[h].out[i] = task[h].out[j] => i = j
      /\ task[h].kind = "command" =>
           task[h].seen \subseteq {Say} /\ Len(task[h].out) <= 1

\* The inductive invariant.
IInv == Typed /\ w2d = d2w /\ Listed /\ Newest /\ Noted

-----------------------------------------------------------------------------
LEMMA InitInv == Init => IInv
  <1>. SUFFICES ASSUME Init PROVE IInv
    OBVIOUS
  <1>1. builds \in Seq([pc : {"scan", "store", "done"}, scan : Nat,
                        from : SUBSET ChEntry])
    BY EmptySeq DEF Init
  <1>2. <<>> \in Seq(Destinations \cup {Say})
    BY EmptySeq
  <1>3. Typed
    <2>1. 0 \in 0 .. MaxEvents /\ 0 \in 0 .. 0
      BY RoutingAssumption
    <2>2. Idle \in [kind : Kinds, todo : SUBSET ((DOMAIN Routes) \X ChEntry),
                    seen : SUBSET (Destinations \cup {Say}),
                    out : Seq(Destinations \cup {Say})]
      BY <1>2 DEF Idle, Kinds
    <2>. QED
      BY <1>1, <2>1, <2>2 DEF Init, Typed, OneName
  <1>4. Listed /\ Newest
    BY EmptySeq DEF Init, Listed, Newest
  <1>5. Noted
    BY DEF Init, Noted, Idle
  <1>. QED
    BY <1>3, <1>4, <1>5 DEF Init, IInv

-----------------------------------------------------------------------------
(* The gateway and buildRoutes. *)

\* What session.State may become.
Sane(known, channels) ==
    /\ known \subseteq Guilds
    /\ channels \subseteq ChEntry /\ OneName(channels)
    /\ \A c \in channels : GuildOf[c.id] \in known

\* An event with a handler starts one more build and changes no table.
LEMMA HeardInv ==
    ASSUME IInv, NEW known, NEW channels, Sane(known, channels), Heard(known, channels)
    PROVE  IInv'
  <1>. DEFINE b == [pc |-> "scan", scan |-> 0, from |-> {}]
              B == [pc : {"scan", "store", "done"}, scan : Nat,
                    from : SUBSET ChEntry]
  <1>0. /\ builds \in Seq(B) /\ b \in B
        /\ builds' = Append(builds, b)
        /\ UNCHANGED <<silent, w2d, d2w, late, task>>
        /\ guilds' = known /\ chans' = channels
        /\ changes < MaxEvents /\ changes' = changes + 1
        /\ MaxEvents \in Nat /\ changes \in Nat /\ silent \in 0 .. changes
    BY RoutingAssumption DEF IInv, Typed, Heard, Change
  <1>1. /\ builds' \in Seq(B) /\ Len(builds') = Len(builds) + 1
        /\ \A e \in 1 .. Len(builds) : builds'[e] = builds[e]
        /\ builds'[Len(builds) + 1] = b
        /\ DOMAIN builds' = 1 .. Len(builds) + 1 /\ DOMAIN builds = 1 .. Len(builds)
        /\ Len(builds) \in Nat
    BY <1>0, AppendProperties
  <1>2. Typed'
    <2>1. changes' \in 0 .. MaxEvents /\ silent' \in 0 .. changes'
      BY <1>0
    <2>. QED
      BY <1>0, <1>1, <2>1 DEF IInv, Typed, Sane, OneName
  <1>3. Listed'
    <2>1. ASSUME NEW e \in DOMAIN builds'
          PROVE  builds'[e].scan <= changes /\ builds'[e].scan \in Nat
      <3>1. CASE e = Len(builds) + 1
        BY <3>1, <1>0, <1>1
      <3>2. CASE e \in DOMAIN builds
        <4>1. builds[e] \in B
          BY <3>2, <1>0, <1>1, ElementOfSeq
        <4>. QED
          BY <3>2, <4>1, <1>1 DEF IInv, Listed
      <3>. QED
        BY <3>1, <3>2, <1>1
    <2>2. builds' # <<>> /\ builds'[Len(builds')].pc = "scan"
      BY <1>1
    <2>3. \A e \in DOMAIN builds' : builds'[e].scan <= changes' /\ builds'[e].scan # changes'
      BY <2>1, <1>0
    <2>. QED
      BY <2>2, <2>3 DEF Listed
  <1>4. Newest'
    <2>1. \A e \in DOMAIN builds' :
            builds'[e].pc = "done" <=> e \in DOMAIN builds /\ builds[e].pc = "done"
      BY <1>1
    <2>2. builds' # <<>>
      BY <1>1
    <2>3. \A e \in DOMAIN builds : e \in DOMAIN builds' /\ builds'[e] = builds[e]
      BY <1>1
    <2>. QED
      BY <2>1, <2>2, <2>3, <1>0 DEF IInv, Newest
  <1>5. Noted' /\ w2d' = d2w'
    BY <1>0 DEF IInv, Noted
  <1>. QED
    BY <1>2, <1>3, <1>4, <1>5 DEF IInv

\* An event without a handler leaves the tables as old as they are.
LEMMA UnheardInv ==
    ASSUME IInv, guilds # {}, NEW known, NEW channels, Sane(known, channels),
           Unheard(known, channels)
    PROVE  IInv'
  <1>0. /\ UNCHANGED <<builds, w2d, d2w, late, task>>
        /\ guilds' = known /\ chans' = channels
        /\ changes < MaxEvents /\ changes' = changes + 1 /\ silent' = changes'
        /\ MaxEvents \in Nat /\ changes \in Nat
    BY RoutingAssumption DEF IInv, Typed, Unheard, Change
  <1>1. Typed'
    <2>1. changes' \in 0 .. MaxEvents /\ silent' \in 0 .. changes'
      BY <1>0
    <2>. QED
      BY <1>0, <2>1 DEF IInv, Typed, Sane, OneName
  <1>2. Listed'
    <2>1. ASSUME NEW e \in DOMAIN builds
          PROVE  builds[e].scan <= changes' /\ builds[e].scan # changes'
      <3>. DEFINE B == [pc : {"scan", "store", "done"}, scan : Nat,
                        from : SUBSET ChEntry]
      <3>1. builds \in Seq(B) /\ e \in 1 .. Len(builds)
        BY LenProperties DEF IInv, Typed
      <3>2. builds[e] \in B
        BY <3>1, ElementOfSeq
      <3>3. builds[e].scan \in Nat /\ builds[e].scan <= changes
        BY <3>2 DEF IInv, Listed
      <3>. QED
        BY <3>3, <1>0
    <2>2. ~(silent' < changes')
      BY <1>0
    <2>. QED
      BY <2>1, <2>2, <1>0 DEF Listed
  <1>3. Newest' /\ Noted' /\ w2d' = d2w'
    BY <1>0 DEF IInv, Newest, Noted
  <1>. QED
    BY <1>1, <1>2, <1>3 DEF IInv

\* The gateway's events.
LEMMA EventInv ==
    ASSUME IInv, Gateway
    PROVE  IInv'
  <1>0. Sane(guilds, chans)
    BY DEF IInv, Typed, Sane
  <1>1. CASE Ready
    <2>1. Sane({}, {})
      BY DEF Sane, OneName
    <2>. QED
      BY <1>1, <2>1, HeardInv DEF Ready
  <1>2. ASSUME NEW g \in Guilds, GuildCreate(g) PROVE IInv'
    <2>1. PICK channels \in SUBSET {c \in ChEntry : GuildOf[c.id] = g} :
            OneName(channels) /\ Heard(guilds \cup {g}, chans \cup channels)
      BY <1>2 DEF GuildCreate
    <2>2. \A c \in chans, d \in channels : c.id # d.id
      BY <1>0, <1>2 DEF GuildCreate, Sane
    <2>3. Sane(guilds \cup {g}, chans \cup channels)
      BY <1>0, <2>1, <2>2 DEF Sane, OneName
    <2>. QED
      BY <2>1, <2>3, HeardInv
  <1>3. ASSUME NEW g \in Guilds, GuildDelete(g) PROVE IInv'
    <2>1. Sane(guilds \ {g}, {c \in chans : GuildOf[c.id] # g})
      BY <1>0 DEF Sane, OneName
    <2>. QED
      BY <1>3, <2>1, UnheardInv DEF GuildDelete
  <1>4. ASSUME NEW c \in ChEntry, ChannelUpdate(c) PROVE IInv'
    <2>1. Sane(guilds, {d \in chans : d.id # c.id} \cup {c})
      BY <1>0, <1>4 DEF ChannelUpdate, Sane, OneName
    <2>. QED
      BY <1>4, <2>1, UnheardInv DEF ChannelUpdate
  <1>5. ASSUME NEW c \in ChEntry, ChannelDelete(c) PROVE IInv'
    <2>1. Sane(guilds, chans \ {c}) /\ guilds # {}
      BY <1>0, <1>5 DEF ChannelDelete, Sane, OneName
    <2>. QED
      BY <1>5, <2>1, UnheardInv DEF ChannelDelete
  <1>. QED
    BY <1>1, <1>2, <1>3, <1>4, <1>5 DEF Gateway

\* The channels are listed.
LEMMA ScanInv ==
    ASSUME IInv, NEW e \in DOMAIN builds, Scan(e)
    PROVE  IInv'
  <1>. DEFINE b == [pc |-> "store", scan |-> changes, from |-> chans]
              B == [pc : {"scan", "store", "done"}, scan : Nat,
                    from : SUBSET ChEntry]
  <1>0. /\ builds \in Seq(B) /\ b \in B
        /\ builds' = [builds EXCEPT ![e] = b]
        /\ UNCHANGED <<state, w2d, d2w, late, task>>
        /\ builds[e].pc = "scan"
        /\ changes \in Nat
    BY RoutingAssumption DEF IInv, Typed, Scan
  <1>1. /\ builds' \in Seq(B) /\ Len(builds') = Len(builds)
        /\ \A f \in DOMAIN builds : f # e => builds'[f] = builds[f]
        /\ builds'[e] = b
        /\ DOMAIN builds' = DOMAIN builds /\ DOMAIN builds = 1 .. Len(builds)
        /\ Len(builds) \in Nat
    BY <1>0, ExceptSeq
  <1>2. Typed'
    BY <1>0, <1>1 DEF IInv, Typed, state
  <1>3. Listed'
    <2>1. \A f \in DOMAIN builds' :
            \/ builds'[f] = builds[f]
            \/ builds'[f].scan = changes /\ builds'[f].from = chans
      BY <1>1
    <2>2. \/ builds'[Len(builds')] = builds[Len(builds)]
          \/ builds'[Len(builds')].scan = changes
      BY <1>1
    <2>3. UNCHANGED state /\ builds' # <<>> /\ DOMAIN builds' = DOMAIN builds
      BY <1>0, <1>1
    <2>. QED
      BY <2>1, <2>2, <2>3, <1>0 DEF IInv, Listed, state
  <1>4. Newest'
    <2>1. \A f \in DOMAIN builds :
            /\ builds'[f].pc = "done" <=> builds[f].pc = "done"
            /\ builds[f].pc = "done" => builds'[f] = builds[f]
      BY <1>0, <1>1
    <2>2. builds' # <<>>
      BY <1>1
    <2>. QED
      BY <2>1, <2>2, <1>0, <1>1 DEF IInv, Newest, state
  <1>5. Noted' /\ w2d' = d2w'
    BY <1>0 DEF IInv, Noted
  <1>. QED
    BY <1>2, <1>3, <1>4, <1>5 DEF IInv

\* Both tables are replaced, and history notes a build that comes late.
LEMMA StoreInv ==
    ASSUME IInv, NEW e \in DOMAIN builds, Store(e)
    PROVE  IInv'
  <1>. DEFINE b == [builds[e] EXCEPT !.pc = "done"]
              B == [pc : {"scan", "store", "done"}, scan : Nat,
                    from : SUBSET ChEntry]
  <1>a. builds \in Seq(B) /\ builds[e] \in B
    <2>1. builds \in Seq(B)
      BY DEF IInv, Typed
    <2>2. e \in 1 .. Len(builds)
      BY <2>1, LenProperties
    <2>. QED
      BY <2>1, <2>2, ElementOfSeq
  <1>b. builds' = [builds EXCEPT ![e] = b]
    BY DEF Store
  <1>0. /\ builds \in Seq(B) /\ builds[e] \in B
        /\ builds' = [builds EXCEPT ![e] = b]
        /\ w2d' = builds[e].from /\ d2w' = builds[e].from
        /\ UNCHANGED <<state, task>>
        /\ builds[e].pc = "store"
        /\ late' = (late \/ \E f \in DOMAIN builds :
                       builds[f].pc = "done" /\ builds[f].scan > builds[e].scan)
    BY <1>a, <1>b DEF Store
  <1>1. b \in B /\ b.pc = "done" /\ b.scan = builds[e].scan /\ b.from = builds[e].from
    BY <1>0
  <1>. HIDE DEF b
  <1>2. /\ builds' \in Seq(B) /\ Len(builds') = Len(builds)
        /\ \A f \in DOMAIN builds : f # e => builds'[f] = builds[f]
        /\ builds'[e] = b
        /\ DOMAIN builds' = DOMAIN builds /\ DOMAIN builds = 1 .. Len(builds)
        /\ Len(builds) \in Nat
    BY <1>0, <1>1, ExceptSeq
  <1>3. Typed'
    <2>1. builds[e].from \subseteq ChEntry
      BY <1>0
    <2>2. late' \in BOOLEAN
      BY <1>0 DEF IInv, Typed
    <2>. QED
      BY <2>1, <2>2, <1>0, <1>2 DEF IInv, Typed, state
  <1>4. Listed'
    <2>1. \A f \in DOMAIN builds' :
            /\ builds'[f].scan = builds[f].scan /\ builds'[f].from = builds[f].from
            /\ builds'[f].pc = builds[f].pc \/ f = e
      BY <1>0, <1>1, <1>2
    <2>2. /\ builds'[Len(builds')].scan = builds[Len(builds)].scan
          /\ builds[Len(builds)].pc = "scan" => builds'[Len(builds')].pc = "scan"
      BY <1>0, <1>1, <1>2
    <2>3. UNCHANGED state /\ builds' # <<>> /\ DOMAIN builds' = DOMAIN builds
      BY <1>0, <1>2
    <2>. QED
      BY <2>1, <2>2, <2>3, <1>0 DEF IInv, Listed, state
  <1>5. Newest'
    <2>1. builds'[e].pc = "done" /\ d2w' = builds'[e].from
      BY <1>0, <1>1, <1>2
    <2>2. ASSUME ~late', NEW f \in DOMAIN builds', builds'[f].pc = "done"
          PROVE  builds'[f].scan <= builds'[e].scan
      <3>1. CASE f = e
        BY <3>1, <1>0, <1>1, <1>2
      <3>2. CASE f # e
        <4>1. builds[f].scan \in Nat /\ builds[e].scan \in Nat
          <5>1. f \in 1 .. Len(builds)
            BY <1>2
          <5>2. builds[f] \in B
            BY <5>1, <1>0, ElementOfSeq
          <5>. QED
            BY <5>2, <1>0
        <4>2. builds'[f] = builds[f] /\ ~(builds[f].scan > builds[e].scan)
          BY <3>2, <2>2, <1>0, <1>2
        <4>. QED
          BY <4>1, <4>2, <1>1, <1>2
      <3>. QED
        BY <3>1, <3>2
    <2>3. builds' # <<>>
      BY <1>2
    <2>. QED
      BY <2>1, <2>2, <2>3, <1>2 DEF Newest
  <1>6. Noted' /\ w2d' = d2w'
    BY <1>0 DEF IInv, Noted
  <1>. QED
    BY <1>3, <1>4, <1>5, <1>6 DEF IInv

-----------------------------------------------------------------------------
(* onMessageCreate. *)

\* Only the gateway and buildRoutes touch the rest.
LEMMA TaskStep ==
    ASSUME IInv, UNCHANGED <<state, builds, w2d, d2w, late>>
    PROVE  /\ Listed' /\ Newest' /\ w2d' = d2w'
           /\ UNCHANGED <<guilds, chans, changes, silent, builds, late>>
  BY DEF IInv, Listed, Newest, state

LEMMA TakeInv ==
    ASSUME IInv, NEW h \in Handlers, NEW c \in ChEntry, NEW kind \in Kinds,
           Take(h, c, kind)
    PROVE  IInv'
  <1>. DEFINE t == [kind |-> kind, seen |-> {}, out |-> <<>>,
                    todo |-> IF kind = "ignored" THEN {} ELSE Lookup(c, d2w)]
  <1>1. /\ UNCHANGED <<state, builds, w2d, d2w, late>>
        /\ task' = [task EXCEPT ![h] = t]
    BY DEF Take
  <1>2. Lookup(c, d2w) \subseteq (DOMAIN Routes) \X ChEntry
    BY DEF Lookup, Entries, IInv, Typed
  <1>3. <<>> \in Seq(Destinations \cup {Say}) /\ Len(<<>>) = 0
    BY EmptySeq
  <1>4. /\ t \in [kind : Kinds, todo : SUBSET ((DOMAIN Routes) \X ChEntry),
                  seen : SUBSET (Destinations \cup {Say}),
                  out : Seq(Destinations \cup {Say})]
        /\ t.out = <<>> /\ Len(t.out) = 0 /\ t.seen = {}
    BY <1>2, <1>3
  <1>. HIDE DEF t
  <1>5. Typed'
    BY <1>1, <1>4 DEF IInv, Typed, state
  <1>6. Noted'
    <2>1. \A g \in Handlers : task'[g] = IF g = h THEN t ELSE task[g]
      BY <1>1 DEF IInv, Typed
    <2>. QED
      BY <2>1, <1>4 DEF IInv, Noted
  <1>. QED
    BY <1>1, <1>5, <1>6, TaskStep DEF IInv

LEMMA SkipRouteInv ==
    ASSUME IInv, NEW h \in Handlers, NEW e \in task[h].todo, SkipRoute(h, e)
    PROVE  IInv'
  <1>. DEFINE t == [task[h] EXCEPT !.todo = @ \ {e}]
  <1>1. /\ UNCHANGED <<state, builds, w2d, d2w, late>>
        /\ task' = [task EXCEPT ![h] = t]
    BY DEF SkipRoute, IInv, Typed
  <1>2. /\ t \in [kind : Kinds, todo : SUBSET ((DOMAIN Routes) \X ChEntry),
                  seen : SUBSET (Destinations \cup {Say}),
                  out : Seq(Destinations \cup {Say})]
        /\ t.out = task[h].out /\ t.seen = task[h].seen /\ t.kind = task[h].kind
    BY DEF IInv, Typed
  <1>. HIDE DEF t
  <1>3. Typed'
    BY <1>1, <1>2 DEF IInv, Typed, state
  <1>4. Noted'
    <2>1. \A g \in Handlers : task'[g] = IF g = h THEN t ELSE task[g]
      BY <1>1 DEF IInv, Typed
    <2>. QED
      BY <2>1, <1>2 DEF IInv, Noted
  <1>. QED
    BY <1>1, <1>3, <1>4, TaskStep DEF IInv

LEMMA SendRouteInv ==
    ASSUME IInv, NEW h \in Handlers, NEW e \in task[h].todo, SendRoute(h, e)
    PROVE  IInv'
  <1>. DEFINE d == Dest(h, e)
              D == Destinations \cup {Say}
  <1>0. PICK written \in BOOLEAN :
          task' = [task EXCEPT ![h] =
                     [kind |-> task[h].kind,
                      todo |-> task[h].todo \ {e},
                      seen |-> task[h].seen \cup {d},
                      out  |-> IF written THEN Append(task[h].out, d)
                                          ELSE task[h].out]]
    BY DEF SendRoute, IInv, Typed
  <1>. DEFINE t == [kind |-> task[h].kind, todo |-> task[h].todo \ {e},
                    seen |-> task[h].seen \cup {d},
                    out |-> IF written THEN Append(task[h].out, d) ELSE task[h].out]
  <1>1. /\ UNCHANGED <<state, builds, w2d, d2w, late>>
        /\ d \notin task[h].seen
    BY DEF SendRoute
  <1>2. task' = [task EXCEPT ![h] = t]
    BY <1>0
  <1>3. d \in D
    <2>1. e[1] \in DOMAIN Routes
      BY DEF IInv, Typed
    <2>2. Routes[e[1]].wow \in Destinations
      BY <2>1 DEF Destinations, Range
    <2>. QED
      BY <2>2 DEF Dest
  <1>4. task[h].out \in Seq(D) /\ task[h].seen \subseteq D /\ task[h].kind \in Kinds
    BY DEF IInv, Typed
  <1>5. /\ t.out \in Seq(D)
        /\ Len(task[h].out) \in Nat
        /\ written => /\ Len(t.out) = Len(task[h].out) + 1
                      /\ \A i \in 1 .. Len(task[h].out) : t.out[i] = task[h].out[i]
                      /\ t.out[Len(task[h].out) + 1] = d
        /\ ~written => t.out = task[h].out
        /\ t.seen = task[h].seen \cup {d} /\ t.kind = task[h].kind
    BY <1>3, <1>4, AppendProperties
  <1>6. t \in [kind : Kinds, todo : SUBSET ((DOMAIN Routes) \X ChEntry),
               seen : SUBSET D, out : Seq(D)]
    BY <1>3, <1>4, <1>5 DEF IInv, Typed
  <1>7. task[h].kind = "command" => d = Say
    BY DEF Dest
  <1>. HIDE DEF t, d
  <1>8. Typed'
    BY <1>1, <1>2, <1>6 DEF IInv, Typed, state
  <1>9. Noted'
    <2>1. \A g \in Handlers : task'[g] = IF g = h THEN t ELSE task[g]
      BY <1>2 DEF IInv, Typed
    <2>2. /\ \A i \in 1 .. Len(task[h].out) : task[h].out[i] \in task[h].seen
          /\ \A i, j \in 1 .. Len(task[h].out) :
               task[h].out[i] = task[h].out[j] => i = j
          /\ task[h].kind = "command" =>
               task[h].seen \subseteq {Say} /\ Len(task[h].out) <= 1
      BY DEF IInv, Noted
    <2>3. \A i \in 1 .. Len(t.out) : t.out[i] \in t.seen
      BY <2>2, <1>5
    <2>4. \A i, j \in 1 .. Len(t.out) : t.out[i] = t.out[j] => i = j
      <3>1. \A i \in 1 .. Len(task[h].out) : task[h].out[i] # d
        BY <2>2, <1>1
      <3>2. CASE ~written
        BY <3>2, <2>2, <1>5
      <3>3. ASSUME written, NEW i \in 1 .. Len(t.out), NEW j \in 1 .. Len(t.out),
                   t.out[i] = t.out[j]
            PROVE  i = j
        <4>1. /\ i \in 1 .. Len(task[h].out) => t.out[i] = task[h].out[i]
              /\ j \in 1 .. Len(task[h].out) => t.out[j] = task[h].out[j]
              /\ i \notin 1 .. Len(task[h].out) => i = Len(task[h].out) + 1 /\ t.out[i] = d
              /\ j \notin 1 .. Len(task[h].out) => j = Len(task[h].out) + 1 /\ t.out[j] = d
          BY <3>3, <1>5
        <4>. QED
          BY <4>1, <3>1, <3>3, <2>2
      <3>. QED
        BY <3>2, <3>3
    <2>5. t.kind = "command" => t.seen \subseteq {Say} /\ Len(t.out) <= 1
      <3>. SUFFICES ASSUME task[h].kind = "command"
                    PROVE  t.seen \subseteq {Say} /\ Len(t.out) <= 1
        BY <1>5
      <3>1. d = Say /\ task[h].seen = {}
        BY <2>2, <1>1, <1>7
      <3>2. Len(task[h].out) = 0
        BY <3>1, <2>2, <1>5
      <3>3. t.seen \subseteq {Say}
        BY <3>1, <1>5
      <3>4. Len(t.out) <= 1
        <4>1. CASE written
          <5>1. Len(t.out) = Len(task[h].out) + 1
            BY <4>1, <1>5
          <5>. QED
            BY <5>1, <3>2
        <4>2. CASE ~written
          BY <4>2, <3>2, <1>5
        <4>. QED
          BY <4>1, <4>2
      <3>. QED
        BY <3>3, <3>4
    <2>. QED
      BY <2>1, <2>3, <2>4, <2>5 DEF IInv, Noted
  <1>. QED
    BY <1>1, <1>8, <1>9, TaskStep DEF IInv

-----------------------------------------------------------------------------
LEMMA NextInv == IInv /\ [Next]_vars => IInv'
  <1>. SUFFICES ASSUME IInv, [Next]_vars PROVE IInv'
    OBVIOUS
  <1>1. CASE Gateway
    BY <1>1, EventInv
  <1>2. ASSUME NEW e \in DOMAIN builds, Scan(e) \/ Store(e) PROVE IInv'
    BY <1>2, ScanInv, StoreInv
  <1>3. ASSUME NEW h \in Handlers, NEW c \in ChEntry, NEW kind \in Kinds,
               Take(h, c, kind)
        PROVE  IInv'
    BY <1>3, TakeInv
  <1>4. ASSUME NEW h \in Handlers, NEW e \in task[h].todo,
               SkipRoute(h, e) \/ SendRoute(h, e)
        PROVE  IInv'
    BY <1>4, SkipRouteInv, SendRouteInv
  <1>5. CASE UNCHANGED vars
    BY <1>5 DEF vars, state, IInv, Typed, OneName, Listed, Newest, Noted
  <1>. QED
    BY <1>1, <1>2, <1>3, <1>4, <1>5 DEF Next

\* The inductive invariant holds.
THEOREM Invariance == Spec => []IInv
  BY InitInv, NextInv, PTL DEF Spec

-----------------------------------------------------------------------------
(* Type correctness. *)

\* The types of the tables, of the builds and of the handlers.
THEOREM TypeCorrect == Spec => []TypeOK
  <1>1. IInv => TypeOK
    <2>. SUFFICES ASSUME IInv PROVE TypeOK
      OBVIOUS
    <2>1. \A e \in DOMAIN builds :
            builds[e] \in [pc : {"scan", "store", "done"}, scan : 0 .. MaxEvents,
                          from : SUBSET ChEntry]
      <3>. TAKE e \in DOMAIN builds
      <3>1. /\ builds \in Seq([pc : {"scan", "store", "done"}, scan : Nat,
                               from : SUBSET ChEntry])
            /\ e \in 1 .. Len(builds)
        BY LenProperties DEF IInv, Typed
      <3>2. builds[e] \in [pc : {"scan", "store", "done"}, scan : Nat,
                           from : SUBSET ChEntry]
        BY <3>1, ElementOfSeq
      <3>3. builds[e].scan \in 0 .. MaxEvents
        <4>1. builds[e].scan \in Nat /\ MaxEvents \in Nat
          BY <3>2, RoutingAssumption
        <4>2. builds[e].scan <= changes /\ changes \in 0 .. MaxEvents
          BY DEF IInv, Typed, Listed
        <4>. QED
          BY <4>1, <4>2
      <3>. QED
        BY <3>2, <3>3
    <2>2. ASSUME NEW h \in Handlers
          PROVE  /\ task[h].kind \in Kinds
                 /\ task[h].todo \subseteq (DOMAIN Routes) \X ChEntry
                 /\ task[h].seen \subseteq Destinations \cup {Say}
                 /\ Range(task[h].out) \subseteq task[h].seen
      <3>1. task[h] \in [kind : Kinds, todo : SUBSET ((DOMAIN Routes) \X ChEntry),
                         seen : SUBSET (Destinations \cup {Say}),
                         out : Seq(Destinations \cup {Say})]
        BY DEF IInv, Typed
      <3>2. DOMAIN task[h].out = 1 .. Len(task[h].out)
        BY <3>1, LenProperties
      <3>3. Range(task[h].out) \subseteq task[h].seen
        BY <3>2 DEF Range, IInv, Noted
      <3>. QED
        BY <3>1, <3>3
    <2>. QED
      BY <2>1, <2>2 DEF IInv, Typed, TypeOK
  <1>. QED
    BY <1>1, Invariance, PTL

-----------------------------------------------------------------------------
(* The properties. *)

\* The two directions of a route appear and disappear together.
THEOREM TablesTogetherCorrect == Spec => []TablesTogether
  <1>1. IInv => TablesTogether
    <2>. SUFFICES ASSUME IInv, NEW r \in Range(Routes), r.dir = "both",
                         NEW c \in Matches(r, w2d \cup d2w)
                  PROVE  /\ c.id \in Targets(r.wow, w2d)
                         /\ r.wow \in Leads(Entries(c.id, d2w))
      BY DEF TablesTogether
    <2>1. PICK i \in DOMAIN Routes : Routes[i] = r
      BY DEF Range
    <2>2. c \in Matches(r, w2d) /\ c \in d2w
      BY DEF IInv, Matches
    <2>3. <<i, c>> \in Entries(c.id, d2w)
      BY <2>1, <2>2 DEF Entries, Matches
    <2>. QED
      BY <2>1, <2>2, <2>3 DEF Targets, Leads
  <1>. QED
    BY <1>1, Invariance, PTL

\* A message finds every route of its channel, those of its old name when it was
\* renamed, and none of a channel with another name.
THEOREM RoutesFoundCorrect == Spec => []RoutesFound
  <1>1. IInv => RoutesFound
    <2>. SUFFICES ASSUME IInv, NEW c \in chans
                  PROVE  /\ c \in d2w => Routed(c) \subseteq Leads(Lookup(c, d2w))
                         /\ \A d \in d2w :
                              d.id = c.id =>
                                \/ Routed(d) \subseteq Leads(Lookup(c, d2w))
                                \/ \E e \in d2w : e.name = c.name /\ Routed(e) # {}
                         /\ Leads(Lookup(c, d2w)) \subseteq
                              UNION {Routed(d) : d \in {e \in d2w :
                                       e.name = c.name \/ e.id = c.id}}
      BY DEF RoutesFound
    <2>0. c \in ChEntry /\ d2w \subseteq ChEntry
      BY DEF IInv, Typed
    <2>1. ASSUME NEW d \in d2w, NEW w \in Routed(d)
          PROVE  \E i \in DOMAIN Routes :
                   /\ Routes[i].wow = w
                   /\ <<i, d>> \in Entries(d.name, d2w) /\ <<i, d>> \in Entries(d.id, d2w)
      <3>1. PICK r \in Range(Routes) :
              /\ r.dir # "wow_to_discord" /\ r.disc \in {d.name, d.id}
              /\ r.wow = w
        BY <2>1 DEF Routed
      <3>2. PICK i \in DOMAIN Routes : Routes[i] = r
        BY DEF Range
      <3>. QED
        BY <3>1, <3>2 DEF Entries, Matches
    <2>2. ASSUME NEW key, NEW e \in Entries(key, d2w)
          PROVE  /\ e[2] \in d2w /\ key \in {e[2].name, e[2].id}
                 /\ Routes[e[1]].wow \in Routed(e[2])
      <3>1. /\ e[1] \in DOMAIN Routes /\ e[2] \in d2w
            /\ Routes[e[1]].dir # "wow_to_discord"
            /\ e[2] \in Matches(Routes[e[1]], d2w)
            /\ key \in {e[2].name, e[2].id}
        BY <2>2 DEF Entries
      <3>. QED
        BY <3>1 DEF Routed, Matches, Range
    <2>3. ASSUME NEW d \in d2w PROVE d.name \notin Channels /\ d.id \notin Names
      BY <2>0, NamesAssumption DEF ChEntry
    <2>4. c.name \notin Channels /\ c.id \notin Names /\ c.name \in Names /\ c.id \in Channels
      BY <2>0, NamesAssumption DEF ChEntry
    <2>5. ASSUME c \in d2w, NEW w \in Routed(c) PROVE w \in Leads(Lookup(c, d2w))
      <3>1. PICK i \in DOMAIN Routes :
              Routes[i].wow = w /\ <<i, c>> \in Entries(c.name, d2w)
        BY <2>1, <2>5
      <3>2. Lookup(c, d2w) = Entries(c.name, d2w)
        BY <3>1 DEF Lookup
      <3>. QED
        BY <3>1, <3>2 DEF Leads
    <2>6. ASSUME NEW d \in d2w, d.id = c.id
          PROVE  \/ Routed(d) \subseteq Leads(Lookup(c, d2w))
                 \/ \E e \in d2w : e.name = c.name /\ Routed(e) # {}
      <3>1. CASE Entries(c.name, d2w) = {}
        <4>1. Lookup(c, d2w) = Entries(d.id, d2w)
          BY <3>1, <2>6 DEF Lookup
        <4>2. ASSUME NEW w \in Routed(d) PROVE w \in Leads(Entries(d.id, d2w))
          <5>1. PICK i \in DOMAIN Routes :
                  Routes[i].wow = w /\ <<i, d>> \in Entries(d.id, d2w)
            BY <2>1
          <5>. QED
            BY <5>1 DEF Leads
        <4>. QED
          BY <4>1, <4>2
      <3>2. ASSUME NEW e \in Entries(c.name, d2w)
            PROVE  e[2] \in d2w /\ e[2].name = c.name /\ Routed(e[2]) # {}
        <4>1. e[2] \in d2w /\ c.name \in {e[2].name, e[2].id}
          BY <2>2
        <4>2. Routed(e[2]) # {}
          BY <2>2
        <4>3. e[2].id \in Channels
          BY <4>1, <2>0 DEF ChEntry
        <4>. QED
          BY <4>1, <4>2, <4>3, <2>4
      <3>. QED
        BY <3>1, <3>2
    <2>7. ASSUME NEW e \in Lookup(c, d2w)
          PROVE  \E d \in d2w : /\ d.name = c.name \/ d.id = c.id
                               /\ Routes[e[1]].wow \in Routed(d)
      <3>1. e \in Entries(c.name, d2w) \/ e \in Entries(c.id, d2w)
        BY DEF Lookup
      <3>2. /\ e[2] \in d2w /\ Routes[e[1]].wow \in Routed(e[2])
            /\ c.name \in {e[2].name, e[2].id} \/ c.id \in {e[2].name, e[2].id}
        BY <3>1, <2>2
      <3>3. e[2].name \in Names /\ e[2].id \in Channels
        BY <3>2, <2>0 DEF ChEntry
      <3>. QED
        BY <3>2, <3>3, <2>4
    <2>8. Leads(Lookup(c, d2w)) \subseteq
            UNION {Routed(d) : d \in {e \in d2w : e.name = c.name \/ e.id = c.id}}
      BY <2>7 DEF Leads
    <2>. QED
      BY <2>5, <2>6, <2>8
  <1>. QED
    BY <1>1, Invariance, PTL

\* When every build has ended the tables are current, in whatever order any number
\* of builds list the channels and store their tables, unless one was overtaken or
\* the State has changed since without a word to the client.
THEOREM CurrentUnlessLateCorrect == Spec => []CurrentUnlessLate
  <1>1. IInv => CurrentUnlessLate
    <2>. SUFFICES ASSUME IInv, ~late, ~Missed,
                         \A e \in DOMAIN builds : builds[e].pc = "done"
                  PROVE  w2d = chans /\ d2w = chans
      BY DEF CurrentUnlessLate, TablesCurrent, Settled
    <2>. DEFINE B == [pc : {"scan", "store", "done"}, scan : Nat,
                      from : SUBSET ChEntry]
    <2>1. builds \in Seq(B) /\ Len(builds) \in Nat /\ DOMAIN builds = 1 .. Len(builds)
      BY LenProperties DEF IInv, Typed
    <2>2. changes \in Nat /\ silent \in 0 .. changes
      BY DEF IInv, Typed
    <2>3. CASE builds = <<>>
      <3>1. d2w = {} /\ chans = {}
        BY <2>3 DEF IInv, Newest
      <3>. QED
        BY <3>1 DEF IInv
    <2>4. CASE builds # <<>>
      <3>1. Len(builds) \in DOMAIN builds
        BY <2>1, <2>4, EmptySeq
      <3>2. PICK e \in DOMAIN builds :
              /\ d2w = builds[e].from
              /\ \A f \in DOMAIN builds : builds[f].scan <= builds[e].scan
        BY <3>1 DEF IInv, Newest
      <3>3. \A f \in DOMAIN builds : builds[f].scan \in Nat /\ builds[f].scan <= changes
        <4>. TAKE f \in DOMAIN builds
        <4>1. builds[f] \in B
          BY <2>1, ElementOfSeq
        <4>. QED
          BY <4>1 DEF IInv, Listed
      <3>4. PICK f \in DOMAIN builds : builds[f].scan = changes
        <4>1. CASE silent < changes
          BY <4>1, <3>1 DEF IInv, Listed
        <4>2. CASE silent = changes /\ changes # 0
          <5>1. PICK g \in DOMAIN builds : ~(builds[g].scan < silent)
            BY <4>2 DEF Missed
          <5>. QED
            BY <4>2, <5>1, <3>3, <2>2
        <4>3. CASE changes = 0
          BY <4>3, <3>1, <3>3
        <4>. QED
          BY <4>1, <4>2, <4>3, <2>2
      <3>5. builds[e].scan = changes
        BY <3>2, <3>3, <3>4, <2>2
      <3>. QED
        BY <3>2, <3>5 DEF IInv, Listed
    <2>. QED
      BY <2>3, <2>4
  <1>. QED
    BY <1>1, Invariance, PTL

\* No destination gets a message twice, whatever the routes.
THEOREM RelayedOnceCorrect == Spec => []RelayedOnce
  <1>1. IInv => RelayedOnce
    <2>. SUFFICES ASSUME IInv, NEW h \in Handlers
                  PROVE  /\ IsInjective(task[h].out)
                         /\ task[h].kind = "command" => Len(task[h].out) <= 1
      BY DEF RelayedOnce
    <2>1. task[h].out \in Seq(Destinations \cup {Say})
      BY DEF IInv, Typed
    <2>2. DOMAIN task[h].out = 1 .. Len(task[h].out)
      BY <2>1, LenProperties
    <2>. QED
      BY <2>2 DEF IInv, Noted, IsInjective
  <1>. QED
    BY <1>1, Invariance, PTL
=============================================================================
