------------------------- MODULE SupervisordProofs -------------------------
(***************************************************************************)
(* What holds of Supervisord when no reload is asked for after SIGTERM     *)
(* (CalmSpec), for every set of programs, every configuration file and     *)
(* every depth of nested handlers.                                         *)
(***************************************************************************)
EXTENDS Supervisord, FiniteSetTheorems, TLAPS

USE VersionsAssumption, DepthAssumption

-----------------------------------------------------------------------------
(***************************************************************************)
(* The inductive invariant.                                                *)
(***************************************************************************)

IsReload(frame) == frame.kind = "reload"

\* While a reload is under way daemon_state_ keeps others out, unless SIGTERM has
\* overwritten it.
ReloadIsGuarded ==
  (\E i \in DOMAIN stack : IsReload(stack[i])) => daemon = "RESTARTING" \/ termed

\* The sections a reload has compared.
Handled(frame) == Len(frame.new) - Len(frame.apply)

\* A reload removes first and then goes through the sections it has read, in order.
FrameOK(frame) ==
  /\ frame.new \in Programs
  /\ Handled(frame) \in Nat
  /\ \A j \in 1..Len(frame.apply) : frame.apply[j] = frame.new[Handled(frame) + j]
  /\ frame.drop # {} => Handled(frame) = 0
  /\ frame.drop \cap Named(frame.new) = {}
  /\ frame.wait \subseteq Subjects(frame)

\* Section i is the last one of n among the first k.
LastOf(programs, k, n, i) ==
  /\ i \in 1..k /\ programs[i].name = n
  /\ \A j \in 1..k : j > i => programs[j].name # n

\* A program has the version of the sections compared so far, or still that of
\* config_, or is gone.
Synced(frame) ==
  \A n \in Names :
    \/ \E i \in 1..Handled(frame) : /\ LastOf(frame.new, Handled(frame), n, i)
                                    /\ map[n].ver = frame.new[i].ver
    \/ /\ \A i \in 1..Handled(frame) : frame.new[i].name # n
       /\ map[n].ver = IF n \in Named(frame.new) \cup frame.drop THEN VersionIn(config, n)
                                                                 ELSE NoVersion

ReloadsInOrder ==
  \A i \in DOMAIN stack : IsReload(stack[i]) => FrameOK(stack[i]) /\ Synced(stack[i])

Inv == TypeOK /\ OneReload /\ ReloadIsGuarded /\ ReloadsInOrder /\ MapMatchesConfig

-----------------------------------------------------------------------------
(***************************************************************************)
(* Facts about the operators.                                              *)
(***************************************************************************)

\* The last section of a name counts.
LEMMA VersionOfLast ==
  ASSUME NEW p \in Seq(Sections), NEW n, NEW i, LastOf(p, Len(p), n, i)
  PROVE  VersionIn(p, n) = p[i].ver
  <1> DEFINE S == {j \in DOMAIN p : p[j].name = n}
  <1>1. DOMAIN p = 1..Len(p) /\ Len(p) \in Nat
    OBVIOUS
  <1>2. i \in S /\ \A j \in S : i >= j
    BY <1>1 DEF LastOf
  <1>3. S \subseteq Int
    BY <1>1
  <1>4. n \in Named(p)
    BY <1>2 DEF Named
  <1>5. Max(S) = i
    <2> HIDE DEF S
    <2>1. Max(S) = CHOOSE x \in S : \A y \in S : x >= y
      BY DEF Max
    <2>2. \A x \in S : (\A y \in S : x >= y) => x = i
      BY <1>2, <1>3
    <2> QED
      BY <1>2, <2>1, <2>2
  <1> QED
    BY <1>4, <1>5 DEF VersionIn

\* The version a reload works towards for the program it looks at.
LEMMA TargetFacts ==
  ASSUME NEW f \in Frames, FrameOK(f), NEW n \in Subjects(f)
  PROVE  /\ f.drop # {} => n \in f.drop /\ Target(f) = NoVersion
         /\ f.drop = {} => /\ Len(f.apply) > 0
                           /\ Handled(f) + 1 \in 1..Len(f.new)
                           /\ f.new[Handled(f) + 1] = Head(f.apply)
                           /\ n = f.new[Handled(f) + 1].name
                           /\ Target(f) = f.new[Handled(f) + 1].ver
                           /\ Target(f) \in Versions
  <1>1. f.new \in Seq(Sections) /\ f.apply \in Seq(Sections)
    BY ProgramsAssumption DEF FrameOK, Frames
  <1>2. CASE f.drop # {}
    BY <1>2 DEF Subjects, Target
  <1>3. CASE f.drop = {}
    <2>1. f.apply # <<>> /\ n = Head(f.apply).name /\ Target(f) = Head(f.apply).ver
      BY <1>3 DEF Subjects, Target
    <2>2. Len(f.apply) > 0 /\ Head(f.apply) = f.apply[1] /\ Head(f.apply) \in Sections
      BY <1>1, <2>1
    <2>3. f.apply[1] = f.new[Handled(f) + 1] /\ Handled(f) + 1 \in 1..Len(f.new)
      <3>1. 1 \in 1..Len(f.apply) /\ Len(f.new) \in Nat
        BY <1>1, <2>2
      <3>2. f.apply[1] = f.new[Handled(f) + 1]
        BY <3>1 DEF FrameOK
      <3>3. Handled(f) + 1 \in 1..Len(f.new)
        <4>1. Handled(f) \in Nat /\ Len(f.apply) \in Nat
          BY <1>1 DEF FrameOK
        <4>2. Handled(f) = Len(f.new) - Len(f.apply)
          BY DEF Handled
        <4>3. \A a, b, h \in Nat : b > 0 /\ h = a - b => h + 1 \in 1..a
          OBVIOUS
        <4> QED
          BY <2>2, <3>1, <4>1, <4>2, <4>3
      <3> QED
        BY <3>2, <3>3
    <2> QED
      BY <1>3, <2>1, <2>2, <2>3 DEF Sections
  <1> QED
    BY <1>2, <1>3

\* One program more was dealt with.
LEMMA DoneFacts ==
  ASSUME NEW f \in Frames, IsReload(f), FrameOK(f), NEW n \in Subjects(f)
  PROVE  /\ Done(f, n) \in Frames /\ IsReload(Done(f, n)) /\ FrameOK(Done(f, n))
         /\ Done(f, n).new = f.new
         /\ f.drop # {} => /\ Done(f, n).drop = f.drop \ {n}
                           /\ Handled(Done(f, n)) = Handled(f)
         /\ f.drop = {} => /\ Done(f, n).drop = f.drop
                           /\ Handled(Done(f, n)) = Handled(f) + 1
  <1>1. /\ f.new \in Seq(Sections) /\ f.apply \in Seq(Sections)
        /\ f.drop \in SUBSET Names /\ f.wait \in SUBSET Names
    BY DEF Frames
  <1>2. CASE f.drop # {}
    <2> DEFINE g == [f EXCEPT !.wait = {}, !.drop = f.drop \ {n}]
    <2>1. Done(f, n) = g
      BY <1>2 DEF Done
    <2>2. /\ g \in Frames /\ g.kind = f.kind /\ g.new = f.new /\ g.apply = f.apply
          /\ g.drop = f.drop \ {n} /\ g.wait = {}
      BY <1>1 DEF Frames
    <2> HIDE DEF g
    <2>3. Handled(g) = Handled(f)
      BY <2>2 DEF Handled
    <2>4. FrameOK(g)
      BY <1>2, <2>2, <2>3 DEF FrameOK
    <2> QED
      BY <1>2, <2>1, <2>2, <2>3, <2>4 DEF IsReload
  <1>3. CASE f.drop = {}
    <2> DEFINE g == [f EXCEPT !.wait = {}, !.apply = Tail(f.apply)]
    <2>1. Done(f, n) = g
      BY <1>3 DEF Done
    <2>2. Len(f.apply) > 0
      BY <1>3, TargetFacts
    <2>3. /\ Tail(f.apply) \in Seq(Sections) /\ Len(Tail(f.apply)) = Len(f.apply) - 1
          /\ \A j \in 1..Len(Tail(f.apply)) : Tail(f.apply)[j] = f.apply[j + 1]
      BY <1>1, <2>2
    <2>4. /\ g \in Frames /\ g.kind = f.kind /\ g.new = f.new /\ g.apply = Tail(f.apply)
          /\ g.drop = f.drop /\ g.wait = {}
      BY <1>1, <2>3 DEF Frames
    <2> HIDE DEF g
    <2>5. Handled(g) = Handled(f) + 1 /\ Handled(f) \in Nat
      <3>1. Handled(f) \in Nat /\ Len(f.new) \in Nat /\ Len(f.apply) \in Nat
        BY <1>1 DEF FrameOK
      <3>2. /\ Handled(f) = Len(f.new) - Len(f.apply)
            /\ Handled(g) = Len(f.new) - Len(Tail(f.apply))
        BY <2>4 DEF Handled
      <3>3. PICK a, b, c, h, k : /\ a = Len(f.new) /\ b = Len(f.apply)
                                 /\ c = Len(Tail(f.apply))
                                 /\ h = Handled(f) /\ k = Handled(g)
        OBVIOUS
      <3>4. a \in Nat /\ b \in Nat /\ h = a - b /\ k = a - c
        BY <3>1, <3>2, <3>3
      <3>5. c = b - 1
        BY <2>3, <3>3
      <3>6. k = h + 1
        BY <3>4, <3>5
      <3> QED
        BY <3>1, <3>3, <3>6
    <2>6. ASSUME NEW j \in 1..Len(g.apply) PROVE g.apply[j] = g.new[Handled(g) + j]
      <3>1. g.apply[j] = f.apply[j + 1]
        BY <2>3, <2>4
      <3>2. j + 1 \in 1..Len(f.apply)
        BY <1>1, <2>3, <2>4
      <3>3. f.apply[j + 1] = f.new[Handled(f) + (j + 1)]
        BY <3>2 DEF FrameOK
      <3>4. Handled(f) + (j + 1) = Handled(g) + j
        BY <2>5
      <3> QED
        BY <2>4, <3>1, <3>3, <3>4
    <2>7. FrameOK(g)
      BY <1>3, <2>4, <2>5, <2>6 DEF FrameOK
    <2> QED
      BY <1>3, <2>1, <2>4, <2>5, <2>7 DEF IsReload
  <1> QED
    BY <1>2, <1>3

\* The program that was dealt with has the version it was to have.
LEMMA SyncedDone ==
  ASSUME NEW f \in Frames, IsReload(f), FrameOK(f), Synced(f), NEW n \in Subjects(f),
         map'[n].ver = Target(f),
         \A m \in Names \ {n} : map'[m].ver = map[m].ver,
         config' = config
  PROVE  Synced(Done(f, n))'
  <1>1. PICK g, h, k : g = Done(f, n) /\ h = Handled(f) /\ k = Handled(g)
    OBVIOUS
  <1>2. /\ g.new = f.new
        /\ f.drop # {} => g.drop = f.drop \ {n} /\ k = h
        /\ f.drop = {} => g.drop = f.drop /\ k = h + 1
    BY <1>1, DoneFacts
  <1>3. h \in Nat
    BY <1>1 DEF FrameOK
  <1> SUFFICES Synced(g)'
    BY <1>1
  <1> SUFFICES ASSUME NEW m \in Names
               PROVE  \/ \E i \in 1..Handled(g) : /\ LastOf(g.new, Handled(g), m, i)
                                                  /\ map'[m].ver = g.new[i].ver
                      \/ /\ \A i \in 1..Handled(g) : g.new[i].name # m
                         /\ map'[m].ver = IF m \in Named(g.new) \cup g.drop
                                          THEN VersionIn(config', m) ELSE NoVersion
    BY Zenon DEF Synced
  <1> SUFFICES \/ \E i \in 1..k : LastOf(f.new, k, m, i) /\ map'[m].ver = f.new[i].ver
               \/ /\ \A i \in 1..k : f.new[i].name # m
                  /\ map'[m].ver = IF m \in Named(f.new) \cup g.drop
                                   THEN VersionIn(config, m) ELSE NoVersion
    BY <1>1, <1>2
  <1>4. \/ \E i \in 1..h : LastOf(f.new, h, m, i) /\ map[m].ver = f.new[i].ver
        \/ /\ \A i \in 1..h : f.new[i].name # m
           /\ map[m].ver = IF m \in Named(f.new) \cup f.drop
                           THEN VersionIn(config, m) ELSE NoVersion
    BY <1>1, Zenon DEF Synced
  <1>5. CASE f.drop # {}
    <2>1. n \in f.drop /\ Target(f) = NoVersion /\ h = 0 /\ k = 0 /\ g.drop = f.drop \ {n}
      BY <1>1, <1>2, <1>5, TargetFacts DEF FrameOK
    <2>2. f.drop \cap Named(f.new) = {}
      BY DEF FrameOK
    <2>3. CASE m = n
      BY <2>1, <2>2, <2>3
    <2>4. CASE m # n
      BY <1>4, <2>1, <2>4
    <2> QED
      BY <2>3, <2>4
  <1>6. CASE f.drop = {}
    <2>1. /\ k = h + 1 /\ g.drop = f.drop
          /\ n = f.new[h + 1].name /\ Target(f) = f.new[h + 1].ver
      BY <1>1, <1>2, <1>6, TargetFacts
    <2>2. CASE m = n
      <3>1. LastOf(f.new, k, m, h + 1)
        BY <1>3, <2>1, <2>2 DEF LastOf
      <3> QED
        BY <1>3, <2>1, <2>2, <3>1
    <2>3. CASE m # n
      <3>1. \A i \in 1..h : LastOf(f.new, h, m, i) => LastOf(f.new, k, m, i) /\ i \in 1..k
        BY <1>3, <2>1, <2>3 DEF LastOf
      <3>2. (\A i \in 1..h : f.new[i].name # m) => (\A i \in 1..k : f.new[i].name # m)
        BY <1>3, <2>1, <2>3
      <3> QED
        BY <1>4, <2>1, <2>3, <3>1, <3>2
    <2> QED
      BY <2>2, <2>3
  <1> QED
    BY <1>5, <1>6

-----------------------------------------------------------------------------
(***************************************************************************)
(* Every step keeps the invariant.                                         *)
(***************************************************************************)

\* A handler that is no reload begins, ends or neither, and no program changes its
\* version.
LEMMA QuietInv ==
  ASSUME Inv,
         map' \in [Names -> Objects], \A n \in Names : map'[n].ver = map[n].ver,
         config' = config,
         loop' \in {"running", "stopped", "left"},
         \/ daemon' = daemon /\ termed' = termed
         \/ daemon' = "SHUTDOWN" /\ termed' = TRUE,
         \/ stack' = stack
         \/ \E f \in Frames : ~IsReload(f) /\ stack' = Append(stack, f)
         \/ /\ stack # <<>> /\ ~IsReload(stack[Len(stack)])
            /\ stack' = SubSeq(stack, 1, Len(stack) - 1)
  PROVE  Inv'
  <1>1. stack \in Seq(Frames)
    BY DEF Inv, TypeOK
  <1> DEFINE Kept == /\ stack' \in Seq(Frames)
                     /\ \A i \in DOMAIN stack' : IsReload(stack'[i]) =>
                          i \in DOMAIN stack /\ stack'[i] = stack[i]
                     /\ \A i \in DOMAIN stack : IsReload(stack[i]) =>
                          i \in DOMAIN stack' /\ stack'[i] = stack[i]
  <1>2. Kept
    <2>1. CASE stack' = stack
      BY <1>1, <2>1
    <2>2. ASSUME NEW f \in Frames, ~IsReload(f), stack' = Append(stack, f)
          PROVE  Kept
      BY <1>1, <2>2
    <2>3. CASE /\ stack # <<>> /\ ~IsReload(stack[Len(stack)])
               /\ stack' = SubSeq(stack, 1, Len(stack) - 1)
      BY <1>1, <2>3
    <2> QED
      BY <2>1, <2>2, <2>3
  <1>3. TypeOK'
    BY <1>2 DEF Inv, TypeOK
  <1>4. OneReload'
    BY <1>2 DEF Inv, OneReload, IsReload
  <1>5. ReloadIsGuarded'
    BY <1>2 DEF Inv, ReloadIsGuarded
  <1>6. ReloadsInOrder'
    <2> SUFFICES ASSUME NEW i \in DOMAIN stack', IsReload(stack'[i])
                 PROVE  (FrameOK(stack[i]) /\ Synced(stack[i]))'
      BY DEF ReloadsInOrder
    <2>1. PICK f : f = stack[i] /\ f = stack'[i]
      BY <1>2
    <2>2. FrameOK(f) /\ Synced(f)
      BY <1>2, <2>1 DEF Inv, ReloadsInOrder
    <2>3. FrameOK(f)' /\ Synced(f)'
      BY <2>2 DEF Synced, FrameOK, Subjects
    <2> QED
      BY <2>1, <2>3
  <1>7. MapMatchesConfig'
    BY <1>2 DEF Inv, MapMatchesConfig, IsReload
  <1> QED
    BY <1>3, <1>4, <1>5, <1>6, <1>7 DEF Inv

\* Requests and the timer that only start programs, and handle_sigchld_.
LEMMA ChangedInv ==
  ASSUME Inv,
         \/ \E n \in Names : StartRequest(n)
         \/ StartAllRequest \/ OnTimer
         \/ \E S \in SUBSET Names : HandleSigchld(S)
  PROVE  Inv'
  <1>1. /\ map' \in [Names -> Objects] /\ \A n \in Names : map'[n].ver = map[n].ver
        /\ config' = config /\ loop' = loop /\ daemon' = daemon /\ termed' = termed
        /\ stack' = stack
    BY DEF StartRequest, StartAllRequest, OnTimer, HandleSigchld, Changed
  <1>2. loop' \in {"running", "stopped", "left"}
    BY <1>1 DEF Inv, TypeOK
  <1> QED
    BY <1>1, <1>2, QuietInv

\* A program's run changes, not its version.
LEMMA RunFacts ==
  ASSUME Inv, NEW n \in Names, NEW r \in Runs
  PROVE  /\ [map[n] EXCEPT !.run = r] \in Objects
         /\ [map[n] EXCEPT !.run = r].ver = map[n].ver
         /\ [map EXCEPT ![n].run = r] \in [Names -> Objects]
         /\ \A m \in Names : [map EXCEPT ![n].run = r][m].ver = map[m].ver
  <1>1. map[n] \in Objects /\ map \in [Names -> Objects]
    BY DEF Inv, TypeOK
  <1>2. [map[n] EXCEPT !.run = r] \in Objects /\ [map[n] EXCEPT !.run = r].ver = map[n].ver
    BY <1>1 DEF Objects
  <1> QED
    BY <1>1, <1>2

\* stopProcess, stopAllProcesses, a shutdown by request or signal, up to their waits.
LEMMA StopInv ==
  ASSUME Inv,
         \/ \E n \in Names : StopRequest(n)
         \/ StopAllRequest \/ ShutdownRequest \/ Sigterm
  PROVE  Inv'
  <1>1. {"stopping", "idle"} \subseteq Runs
    BY DEF Runs
  <1>2. \A kind \in {"stop", "stopall", "shutdown"} : \A S \in SUBSET Names :
          Wait(kind, S) \in Frames /\ ~IsReload(Wait(kind, S))
    BY DEF Wait, Frames, IsReload
  <1>3. ASSUME NEW n \in Names, StopRequest(n) PROVE Inv'
    <2>1. map' = [map EXCEPT ![n].run = "stopping"]
      BY <1>3 DEF StopRequest
    <2>2. map' \in [Names -> Objects] /\ \A m \in Names : map'[m].ver = map[m].ver
      BY <1>1, <2>1, RunFacts
    <2>3. /\ config' = config /\ loop' = loop /\ daemon' = daemon /\ termed' = termed
          /\ stack' = Append(stack, Wait("stop", {n}))
      BY <1>3 DEF StopRequest, Push
    <2>4. loop' \in {"running", "stopped", "left"}
      BY <2>3 DEF Inv, TypeOK
    <2>5. Wait("stop", {n}) \in Frames /\ ~IsReload(Wait("stop", {n}))
      BY <1>2
    <2> QED
      BY <2>2, <2>3, <2>4, <2>5, QuietInv
  <1>4. ASSUME NEW kind \in {"stopall", "shutdown"}, StopAll(kind),
               \/ daemon' = daemon /\ termed' = termed
               \/ daemon' = "SHUTDOWN" /\ termed' = TRUE
        PROVE  Inv'
    <2>1. map' = [n \in Names |-> IF HasChild(map[n]) THEN [map[n] EXCEPT !.run = "stopping"]
                                                      ELSE map[n]]
      BY <1>4 DEF StopAll
    <2>2. map' \in [Names -> Objects] /\ \A m \in Names : map'[m].ver = map[m].ver
      BY <1>1, <2>1, RunFacts DEF Inv, TypeOK
    <2>3. /\ config' = config
          /\ stack' = stack \/ stack' = Append(stack, Wait(kind, Names))
          /\ loop' = loop \/ loop' = "stopped"
      BY <1>4 DEF StopAll, Push
    <2>4. loop' \in {"running", "stopped", "left"}
      BY <2>3 DEF Inv, TypeOK
    <2>5. Wait(kind, Names) \in Frames /\ ~IsReload(Wait(kind, Names))
      BY <1>2
    <2> QED
      BY <1>4, <2>2, <2>3, <2>4, <2>5, QuietInv
  <1>5. CASE StopAllRequest
    BY <1>4, <1>5 DEF StopAllRequest
  <1>6. CASE ShutdownRequest
    BY <1>4, <1>6 DEF ShutdownRequest
  <1>7. CASE Sigterm
    BY <1>4, <1>7 DEF Sigterm
  <1> QED
    BY <1>3, <1>5, <1>6, <1>7

\* The wait of a stop or shutdown is over, or the event loop has ended.
LEMMA ReturnInv ==
  ASSUME Inv, Return \/ Leave
  PROVE  Inv'
  <1>1. "idle" \in Runs
    BY DEF Runs
  <1>2. CASE Return
    <2>1. map' = [n \in Names |-> IF Top.kind # "stop" /\ HasChild(map[n])
                                  THEN [map[n] EXCEPT !.run = "idle"] ELSE map[n]]
      BY <1>2 DEF Return
    <2>2. map' \in [Names -> Objects] /\ \A m \in Names : map'[m].ver = map[m].ver
      BY <1>1, <2>1, RunFacts DEF Inv, TypeOK
    <2>3. /\ config' = config /\ daemon' = daemon /\ termed' = termed
          /\ loop' = loop \/ loop' = "stopped"
          /\ stack # <<>> /\ ~IsReload(stack[Len(stack)])
          /\ stack' = SubSeq(stack, 1, Len(stack) - 1)
      BY <1>2 DEF Return, LoopAfter, Waiting, Top, Pop, IsReload
    <2>4. loop' \in {"running", "stopped", "left"}
      BY <2>3 DEF Inv, TypeOK
    <2> QED
      BY <2>2, <2>3, <2>4, QuietInv
  <1>3. CASE Leave
    <2>1. map' = [n \in Names |-> [map[n] EXCEPT !.run = "idle"]]
      BY <1>3 DEF Leave
    <2>2. map' \in [Names -> Objects] /\ \A m \in Names : map'[m].ver = map[m].ver
      BY <1>1, <2>1, RunFacts
    <2>3. /\ config' = config /\ daemon' = daemon /\ termed' = termed
          /\ loop' \in {"running", "stopped", "left"} /\ stack' = stack
      BY <1>3 DEF Leave
    <2> QED
      BY <2>2, <2>3, QuietInv
  <1> QED
    BY <1>2, <1>3

\* A reload begins only when there is none, and parse_file may throw.
LEMMA ReloadInv ==
  ASSUME Inv, Reload, ~termed
  PROVE  Inv'
  <1>1. /\ config' = config /\ map' = map /\ loop' = loop /\ termed' = termed
        /\ daemon # "RESTARTING"
    BY DEF Reload, MayReload
  <1>2. stack \in Seq(Frames) /\ \A i \in DOMAIN stack : ~IsReload(stack[i])
    BY <1>1 DEF Inv, TypeOK, ReloadIsGuarded
  <1>3. \A n \in Names : map[n].ver = VersionIn(config, n)
    BY <1>2 DEF Inv, MapMatchesConfig, IsReload
  <1>4. CASE daemon' = "RUNNING" /\ stack' = stack
    <2>1. TypeOK'
      BY <1>1, <1>4 DEF Inv, TypeOK
    <2> QED
      BY <1>1, <1>2, <1>3, <1>4, <2>1
      DEF Inv, OneReload, ReloadIsGuarded, ReloadsInOrder, MapMatchesConfig, IsReload
  <1>5. CASE ~(daemon' = "RUNNING" /\ stack' = stack)
    <2>0. PICK new \in Programs :
            /\ stack' = Append(stack,
                 [kind |-> "reload", wait |-> {}, new |-> new,
                  drop |-> {n \in Names : map[n].ver # NoVersion} \ Named(new),
                  apply |-> new])
            /\ daemon' = "RESTARTING"
      BY <1>5 DEF Reload, Push, AfterFailedReload
    <2>1. PICK f :
            /\ f = [kind |-> "reload", wait |-> {}, new |-> new,
                    drop |-> {n \in Names : map[n].ver # NoVersion} \ Named(new),
                    apply |-> new]
            /\ stack' = Append(stack, f) /\ daemon' = "RESTARTING"
      BY <2>0
    <2>2. new \in Seq(Sections)
      BY ProgramsAssumption
    <2>3. f \in Frames /\ IsReload(f)
      BY <2>1, <2>2 DEF Frames, IsReload
    <2>4. Handled(f) = 0 /\ f.new = new /\ f.apply = new /\ f.wait = {}
      BY <2>1, <2>2 DEF Handled
    <2>5. f.drop = {n \in Names : map[n].ver # NoVersion} \ Named(new)
      BY <2>1
    <2>6. FrameOK(f)
      BY <2>2, <2>4, <2>5 DEF FrameOK
    <2>7. Synced(f)'
      BY <1>1, <1>3, <2>4, <2>5 DEF Synced
    <2>8. /\ stack' \in Seq(Frames) /\ DOMAIN stack' = 1..(Len(stack) + 1)
          /\ Len(stack) + 1 \in DOMAIN stack' /\ stack'[Len(stack) + 1] = f
          /\ \A i \in DOMAIN stack' : i # Len(stack) + 1 => ~IsReload(stack'[i])
      BY <1>2, <2>1, <2>3
    <2>9. TypeOK'
      BY <1>1, <2>1, <2>8 DEF Inv, TypeOK
    <2>10. OneReload' /\ ReloadIsGuarded'
      BY <2>1, <2>8 DEF OneReload, ReloadIsGuarded, IsReload
    <2>11. ReloadsInOrder'
      <3> SUFFICES ASSUME NEW i \in DOMAIN stack', IsReload(stack'[i])
                   PROVE  (FrameOK(stack[i]) /\ Synced(stack[i]))'
        BY DEF ReloadsInOrder
      <3>1. stack'[i] = f
        BY <2>8
      <3>2. FrameOK(f)'
        BY <2>6 DEF FrameOK, Subjects
      <3> QED
        BY <2>7, <3>1, <3>2
    <2>12. MapMatchesConfig'
      BY <2>3, <2>8 DEF MapMatchesConfig, IsReload
    <2> QED
      BY <2>9, <2>10, <2>11, <2>12 DEF Inv
  <1> QED
    BY <1>4, <1>5

\* The reload on top of the stack goes on.
LEMMA BecomeInv ==
  ASSUME Inv, NEW f, NEW g \in Frames,
         stack # <<>>, f = stack[Len(stack)], IsReload(f), IsReload(g),
         stack' = [stack EXCEPT ![Len(stack)] = g],
         map' \in [Names -> Objects], FrameOK(g), Synced(g)',
         config' = config, daemon' = daemon, loop' = loop, termed' = termed
  PROVE  Inv'
  <1>1. stack \in Seq(Frames) /\ Len(stack) \in DOMAIN stack
    BY DEF Inv, TypeOK
  <1>2. /\ stack' \in Seq(Frames) /\ DOMAIN stack' = DOMAIN stack
        /\ stack'[Len(stack)] = g
        /\ \A i \in DOMAIN stack : i # Len(stack) => stack'[i] = stack[i] /\ ~IsReload(stack[i])
    BY <1>1 DEF Inv, OneReload, IsReload
  <1>3. TypeOK'
    BY <1>2 DEF Inv, TypeOK
  <1>4. OneReload' /\ ReloadIsGuarded'
    BY <1>1, <1>2 DEF Inv, OneReload, ReloadIsGuarded, IsReload
  <1>5. ReloadsInOrder'
    <2> SUFFICES ASSUME NEW i \in DOMAIN stack', IsReload(stack'[i])
                 PROVE  (FrameOK(stack[i]) /\ Synced(stack[i]))'
      BY DEF ReloadsInOrder
    <2>1. stack'[i] = g
      BY <1>2
    <2>2. FrameOK(g)'
      BY DEF FrameOK, Subjects
    <2> QED
      BY <2>1, <2>2
  <1>6. MapMatchesConfig'
    BY <1>1, <1>2 DEF MapMatchesConfig, IsReload
  <1> QED
    BY <1>3, <1>4, <1>5, <1>6 DEF Inv

\* What the invariant says of the reload on top of the stack.
LEMMA TopFacts ==
  ASSUME Inv, stack # <<>>, IsReload(Top)
  PROVE  /\ Top = stack[Len(stack)] /\ Len(stack) \in DOMAIN stack /\ Top \in Frames
         /\ FrameOK(Top) /\ Synced(Top) /\ Subjects(Top) \subseteq Names
  <1>1. stack \in Seq(Frames) /\ Len(stack) \in DOMAIN stack
    BY DEF Inv, TypeOK
  <1>2. Top = stack[Len(stack)] /\ Top \in Frames
    BY <1>1 DEF Top
  <1>3. FrameOK(Top) /\ Synced(Top)
    BY <1>1, <1>2 DEF Inv, ReloadsInOrder
  <1>4. Subjects(Top) \subseteq Names
    <2>1. Top.drop \subseteq Names /\ Top.apply \in Seq(Sections)
      BY <1>2 DEF Frames
    <2>2. Top.apply # <<>> => Head(Top.apply) \in Sections
      BY <2>1
    <2> QED
      BY <2>1, <2>2 DEF Subjects, Sections
  <1> QED
    BY <1>1, <1>2, <1>3, <1>4

\* erase, add_process and start_process of one program.
LEMMA ReplaceFacts ==
  ASSUME Inv, NEW f \in Frames, FrameOK(f), NEW n \in Names, n \in Subjects(f), Replace(f, n)
  PROVE  /\ map' \in [Names -> Objects] /\ map'[n].ver = Target(f)
         /\ \A m \in Names \ {n} : map'[m] = map[m]
  <1>1. Target(f) \in Versions \cup {NoVersion}
    BY TargetFacts
  <1>2. PICK obj \in IF Target(f) = NoVersion THEN {Absent}
                     ELSE [ver : {Target(f)}, run : Started(Absent)] :
          map' = [map EXCEPT ![n] = obj]
    BY DEF Replace
  <1>3. Started(Absent) \subseteq Runs
    BY DEF Started, Runs
  <1>4. obj \in Objects /\ obj.ver = Target(f)
    BY <1>1, <1>2, <1>3 DEF Objects, Absent, Runs
  <1> QED
    BY <1>2, <1>4 DEF Inv, TypeOK

\* sync_processes deals with one program at once or after its wait.
LEMMA DoneInv ==
  ASSUME Inv, NEW f, stack # <<>>, f = Top, IsReload(f), NEW n \in Subjects(f),
         Become(Done(f, n)),
         map' \in [Names -> Objects], map'[n].ver = Target(f),
         \A m \in Names \ {n} : map'[m].ver = map[m].ver,
         config' = config, daemon' = daemon, loop' = loop, termed' = termed
  PROVE  Inv'
  <1>1. f = stack[Len(stack)] /\ f \in Frames /\ FrameOK(f) /\ Synced(f)
    BY TopFacts
  <1>2. PICK g : g = Done(f, n)
    OBVIOUS
  <1>3. g \in Frames /\ IsReload(g) /\ FrameOK(g)
    BY <1>1, <1>2, DoneFacts
  <1>4. Synced(g)'
    BY <1>1, <1>2, SyncedDone
  <1>5. stack' = [stack EXCEPT ![Len(stack)] = g]
    BY <1>2 DEF Become
  <1> QED
    BY <1>1, <1>3, <1>4, <1>5, BecomeInv

\* sync_processes waits for a program that is to be removed.
LEMMA BeginWaitInv ==
  ASSUME Inv, NEW f, stack # <<>>, f = Top, IsReload(f), NEW n \in Subjects(f),
         Become([f EXCEPT !.wait = {n}]),
         map' = [map EXCEPT ![n].run = "stopping"],
         config' = config, daemon' = daemon, loop' = loop, termed' = termed
  PROVE  Inv'
  <1>1. /\ f = stack[Len(stack)] /\ f \in Frames /\ FrameOK(f) /\ Synced(f)
        /\ n \in Names
    BY TopFacts
  <1>2. PICK g : g = [f EXCEPT !.wait = {n}]
    OBVIOUS
  <1>3. /\ g \in Frames /\ g.kind = f.kind /\ g.new = f.new /\ g.drop = f.drop
        /\ g.apply = f.apply /\ g.wait = {n}
    BY <1>1, <1>2 DEF Frames
  <1>4. IsReload(g) /\ Handled(g) = Handled(f) /\ Subjects(g) = Subjects(f)
    BY <1>3 DEF IsReload, Handled, Subjects
  <1>5. FrameOK(g)
    BY <1>1, <1>3, <1>4 DEF FrameOK
  <1>6. map' \in [Names -> Objects] /\ \A m \in Names : map'[m].ver = map[m].ver
    <2>1. "stopping" \in Runs
      BY DEF Runs
    <2> QED
      BY <1>1, <2>1, RunFacts
  <1>7. Synced(g)'
    <2>1. Synced(f)'
      BY <1>1, <1>6 DEF Synced
    <2> QED
      BY <1>3, <1>4, <2>1 DEF Synced
  <1>8. stack' = [stack EXCEPT ![Len(stack)] = g]
    BY <1>2 DEF Become
  <1> QED
    BY <1>1, <1>3, <1>4, <1>5, <1>6, <1>7, <1>8, BecomeInv

\* A step of sync_processes.
LEMMA SyncInv ==
  ASSUME Inv, SyncStep \/ SyncReturn
  PROVE  Inv'
  <1>1. /\ stack # <<>> /\ IsReload(Top)
        /\ config' = config /\ daemon' = daemon /\ loop' = loop /\ termed' = termed
    BY DEF SyncStep, SyncReturn, Waiting, IsReload
  <1>2. PICK f : f = Top
    OBVIOUS
  <1>3. /\ f \in Frames /\ FrameOK(f)
        /\ Subjects(f) \subseteq Names /\ f.wait \subseteq Subjects(f)
    BY <1>1, <1>2, TopFacts DEF FrameOK
  <1>4. map \in [Names -> Objects]
    BY DEF Inv, TypeOK
  <1>5. PICK n \in Subjects(f) :
          \/ Become(Done(f, n)) /\ map' = map /\ ~MustReplace(f, n)
          \/ Become([f EXCEPT !.wait = {n}]) /\ map' = [map EXCEPT ![n].run = "stopping"]
          \/ Become(Done(f, n)) /\ Replace(f, n)
    <2>1. CASE SyncStep
      BY <1>2, <2>1 DEF SyncStep
    <2>2. CASE SyncReturn
      BY <1>2, <1>3, <2>2 DEF SyncReturn
    <2> QED
      BY <2>1, <2>2
  <1>6. n \in Names
    BY <1>3
  <1>7. CASE Become(Done(f, n)) /\ map' = map /\ ~MustReplace(f, n)
    <2>1. /\ map' \in [Names -> Objects] /\ map'[n].ver = Target(f)
          /\ \A m \in Names \ {n} : map'[m].ver = map[m].ver
      BY <1>4, <1>7 DEF MustReplace
    <2> QED
      BY <1>1, <1>2, <1>7, <2>1, DoneInv
  <1>8. CASE Become([f EXCEPT !.wait = {n}]) /\ map' = [map EXCEPT ![n].run = "stopping"]
    BY <1>1, <1>2, <1>8, BeginWaitInv
  <1>9. CASE Become(Done(f, n)) /\ Replace(f, n)
    <2>1. /\ map' \in [Names -> Objects] /\ map'[n].ver = Target(f)
          /\ \A m \in Names \ {n} : map'[m].ver = map[m].ver
      BY <1>3, <1>6, <1>9, ReplaceFacts
    <2> QED
      BY <1>1, <1>2, <1>9, <2>1, DoneInv
  <1> QED
    BY <1>5, <1>7, <1>8, <1>9

\* A reload that went through all its sections has made process_map_ what it read.
LEMMA ReloadDoneInv ==
  ASSUME Inv, ReloadDone
  PROVE  Inv'
  <1>1. PICK f : f = Top
    OBVIOUS
  <1>2. /\ stack # <<>> /\ IsReload(f) /\ f.wait = {} /\ f.drop = {} /\ f.apply = <<>>
        /\ config' = f.new /\ daemon' = "RUNNING" /\ stack' = SubSeq(stack, 1, Len(stack) - 1)
        /\ map' = map /\ loop' = loop /\ termed' = termed
    BY <1>1 DEF ReloadDone, IsReload, Pop
  <1>3. /\ f = stack[Len(stack)] /\ Len(stack) \in DOMAIN stack
        /\ f \in Frames /\ FrameOK(f) /\ Synced(f)
    BY <1>1, <1>2, TopFacts
  <1>4. f.new \in Programs /\ f.new \in Seq(Sections)
    BY <1>3, ProgramsAssumption DEF FrameOK
  <1>5. stack \in Seq(Frames)
    BY DEF Inv, TypeOK
  <1>6. stack' \in Seq(Frames) /\ \A i \in DOMAIN stack' : ~IsReload(stack'[i])
    <2>1. \A i \in DOMAIN stack : IsReload(stack[i]) => i = Len(stack)
      BY <1>2, <1>3 DEF Inv, OneReload, IsReload
    <2>2. Len(stack) \in Nat /\ Len(stack) > 0
      BY <1>2, <1>5
    <2>3. /\ stack' \in Seq(Frames) /\ DOMAIN stack' = 1..(Len(stack) - 1)
          /\ \A i \in DOMAIN stack' : /\ i \in DOMAIN stack /\ i # Len(stack)
                                      /\ stack'[i] = stack[i]
      BY <1>2, <1>5, <2>2
    <2> QED
      BY <2>1, <2>3
  <1>7. Handled(f) = Len(f.new)
    <2>1. Len(f.apply) = 0 /\ Len(f.new) \in Nat
      BY <1>2, <1>4
    <2> QED
      BY <2>1 DEF Handled
  <1>8. ASSUME NEW n \in Names PROVE map[n].ver = VersionIn(f.new, n)
    <2>1. CASE \E i \in 1..Handled(f) : /\ LastOf(f.new, Handled(f), n, i)
                                        /\ map[n].ver = f.new[i].ver
      BY <1>4, <1>7, <2>1, VersionOfLast
    <2>2. CASE /\ \A i \in 1..Handled(f) : f.new[i].name # n
               /\ map[n].ver = IF n \in Named(f.new) \cup f.drop THEN VersionIn(config, n)
                                                                 ELSE NoVersion
      <3>1. n \notin Named(f.new)
        BY <1>4, <1>7, <2>2 DEF Named
      <3> QED
        BY <1>2, <2>2, <3>1 DEF VersionIn
    <2> QED
      BY <1>3, <2>1, <2>2 DEF Synced
  <1>9. TypeOK'
    BY <1>2, <1>4, <1>6 DEF Inv, TypeOK
  <1>10. OneReload' /\ ReloadIsGuarded' /\ ReloadsInOrder'
    BY <1>6 DEF OneReload, ReloadIsGuarded, ReloadsInOrder, IsReload
  <1>11. MapMatchesConfig'
    BY <1>2, <1>8 DEF MapMatchesConfig
  <1> QED
    BY <1>9, <1>10, <1>11 DEF Inv

\* run() has called start_all().
LEMMA InitInv == Init => Inv
  <1> SUFFICES ASSUME Init PROVE Inv
    OBVIOUS
  <1>1. stack = <<>> /\ stack \in Seq(Frames) /\ DOMAIN stack = {}
    BY DEF Init
  <1>2. TypeOK
    BY <1>1 DEF Init, TypeOK
  <1>3. MapMatchesConfig
    BY DEF Init, MapMatchesConfig
  <1> QED
    BY <1>1, <1>2, <1>3 DEF Inv, OneReload, ReloadIsGuarded, ReloadsInOrder

\* Every step of CalmSpec keeps the invariant.
LEMMA NextInv == Inv /\ [CalmNext]_vars => Inv'
  <1> SUFFICES ASSUME Inv, [CalmNext]_vars PROVE Inv'
    OBVIOUS
  <1>1. CASE UNCHANGED vars
    <2>1. /\ map' = map /\ config' = config /\ daemon' = daemon /\ loop' = loop
          /\ termed' = termed /\ stack' = stack
      BY <1>1 DEF vars
    <2>2. map' \in [Names -> Objects] /\ loop' \in {"running", "stopped", "left"}
      BY <2>1 DEF Inv, TypeOK
    <2> QED
      BY <2>1, <2>2, QuietInv
  <1>2. CASE CalmNext
    BY <1>2, ReloadInv, ChangedInv, StopInv, SyncInv, ReloadDoneInv, ReturnInv
    DEF CalmNext, NextButReload
  <1> QED
    BY <1>1, <1>2

-----------------------------------------------------------------------------
(***************************************************************************)
(* The theorems.                                                           *)
(***************************************************************************)

\* The invariant holds throughout.
THEOREM Safety == CalmSpec => []Inv
  BY InitInv, NextInv, PTL DEF CalmSpec

\* process_map_, config_ and the call stack keep their types: a reload on the stack
\* only ever holds sections it has read.
THEOREM DaemonTypeCorrect == CalmSpec => []TypeOK
  <1>1. Inv => TypeOK
    BY DEF Inv
  <1> QED
    BY <1>1, Safety, PTL

\* reload_config_ is never entered while another call of it is on the stack, however
\* deep the handlers nest.
THEOREM ReloadsDoNotNest == CalmSpec => []OneReload
  <1>1. Inv => OneReload
    BY DEF Inv
  <1> QED
    BY <1>1, Safety, PTL

\* sync_processes leaves in process_map_ what the last section of each name says,
\* whatever was requested in the event loops nested in it.
THEOREM ReloadIsComplete == CalmSpec => []MapMatchesConfig
  <1>1. Inv => MapMatchesConfig
    BY DEF Inv
  <1> QED
    BY <1>1, Safety, PTL

\* Sections that are as many as their names have different names.
LEMMA DistinctNames ==
  ASSUME NEW p \in Seq(Sections), Cardinality(Named(p)) = Len(p),
         NEW i \in 1..Len(p), NEW j \in 1..Len(p), p[i].name = p[j].name
  PROVE  i = j
  <1> DEFINE f == [k \in 1..Len(p) |-> p[k].name]
  <1>1. Len(p) \in Nat /\ DOMAIN p = 1..Len(p)
    OBVIOUS
  <1>2. IsFiniteSet(1..Len(p)) /\ Cardinality(1..Len(p)) = Len(p)
    BY <1>1, FS_Interval
  <1>3. f \in Surjection(1..Len(p), Named(p))
    BY <1>1 DEF Surjection, Named
  <1>4. f \in Injection(1..Len(p), Named(p))
    <2> HIDE DEF f
    <2> QED
      BY <1>2, <1>3, FS_Surjection
  <1> QED
    <2>1. f[i] = f[j]
      OBVIOUS
    <2> HIDE DEF f
    <2> QED
      BY <1>4, <2>1 DEF Injection, IsInjective

\* "Unchanged - leave running": sync_processes touches only programs whose
\* configuration differs between config_ and the file it read.
THEOREM ReloadIsMinimal == CalmSpec => UnchangedLeftAlone
  <1> DEFINE A == stack # <<>> /\ Top.kind = "reload" /\ Top.wait = {}
                    /\ Cardinality(Named(Top.new)) = Len(Top.new)
                  => \A n \in Names : map'[n] # map[n] =>
                       VersionIn(config, n) # VersionIn(Top.new, n)
  <1>1. Inv /\ [CalmNext]_vars => [A]_vars
    <2> SUFFICES ASSUME Inv, CalmNext, stack # <<>>, Top.kind = "reload", Top.wait = {},
                        Cardinality(Named(Top.new)) = Len(Top.new),
                        NEW m \in Names, map'[m] # map[m]
                 PROVE  VersionIn(config, m) # VersionIn(Top.new, m)
      OBVIOUS
    <2>1. ~Serving /\ ~Waiting
      BY DEF Serving, Waiting
    <2>2. SyncStep
      BY <2>1 DEF CalmNext, NextButReload, Reload, StartRequest, StopRequest, StartAllRequest,
         StopAllRequest, ShutdownRequest, Sigterm, OnTimer, HandleSigchld, SyncReturn,
         ReloadDone, Return, Leave
    <2>3. PICK f : f = Top
      OBVIOUS
    <2>4. f \in Frames /\ FrameOK(f) /\ Synced(f)
      BY <2>3, TopFacts DEF IsReload
    <2>5. f.new \in Seq(Sections)
      BY <2>4, ProgramsAssumption DEF FrameOK
    <2>6. PICK n \in Subjects(f) : MustReplace(f, n) /\ \A l \in Names \ {n} : map'[l] = map[l]
      <3>1. PICK n \in Subjects(f) :
              /\ MustReplace(f, n)
              /\ map' = [map EXCEPT ![n].run = "stopping"] \/ Replace(f, n)
        BY <2>2, <2>3 DEF SyncStep
      <3> QED
        BY <3>1 DEF Replace, Inv, TypeOK
    <2>7. m = n /\ map[m].ver # Target(f)
      BY <2>6 DEF MustReplace
    <2>8. CASE f.drop # {}
      <3>1. n \in f.drop /\ Target(f) = NoVersion /\ Handled(f) = 0 /\ n \notin Named(f.new)
        BY <2>4, <2>8, TargetFacts DEF FrameOK
      <3>2. map[m].ver = VersionIn(config, m)
        BY <2>4, <2>7, <3>1 DEF Synced
      <3>3. VersionIn(f.new, m) = NoVersion
        BY <2>7, <3>1 DEF VersionIn
      <3> QED
        BY <2>3, <2>7, <3>1, <3>2, <3>3
    <2>9. CASE f.drop = {}
      <3>1. PICK h : h = Handled(f)
        OBVIOUS
      <3>2. /\ h \in Nat /\ h + 1 \in 1..Len(f.new)
            /\ n = f.new[h + 1].name /\ Target(f) = f.new[h + 1].ver
        BY <2>4, <2>9, <3>1, TargetFacts DEF FrameOK
      <3>3. \A i \in 1..Len(f.new) : f.new[i].name = m => i = h + 1
        BY <2>3, <2>5, <2>7, <3>2, DistinctNames
      <3>4. LastOf(f.new, Len(f.new), m, h + 1)
        BY <2>5, <2>7, <3>2, <3>3 DEF LastOf
      <3>5. VersionIn(f.new, m) = Target(f)
        BY <2>5, <3>2, <3>4, VersionOfLast
      <3>6. m \in Named(f.new)
        BY <2>5, <2>7, <3>2 DEF Named
      <3>7. map[m].ver = VersionIn(config, m)
        <4>1. \A i \in 1..h : f.new[i].name # m
          BY <2>5, <3>2, <3>3
        <4> QED
          BY <2>4, <3>1, <3>6, <4>1 DEF Synced, LastOf
      <3> QED
        BY <2>3, <2>7, <3>5, <3>7
    <2> QED
      BY <2>8, <2>9
  <1> QED
    BY <1>1, Safety, PTL DEF CalmSpec, UnchangedLeftAlone
=============================================================================
