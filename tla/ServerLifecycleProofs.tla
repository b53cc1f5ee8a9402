----------------------- MODULE ServerLifecycleProofs -----------------------
(***************************************************************************)
(* Proofs about ServerLifecycle, for every program, any packets of the     *)
(* neighbours and any number of restarts.                                  *)
(*                                                                         *)
(* The runs' invariants speak of the threads and of the end of the         *)
(* program; what makes them inductive is an account of what is held at     *)
(* every step between: while it starts, while it serves, and while it      *)
(* releases, from wherever the start failed.                               *)
(***************************************************************************)
EXTENDS ServerLifecycle, WellFoundedInduction, TLAPS

AllFlags == {"initialized", "rtsp", "pipeline", "discovery"}

Places == {"unborn", "check", "poll", "return", "exited", "leave", "raop", "airplay"}

Phases == {"init", "spawn", "wait", "stop", "join", "deinit", "done"}

LifecycleType ==
    /\ program \in Programs
    /\ held \in [Resources -> {0, 1}]
    /\ flags \subseteq AllFlags
    /\ main \in [phase : Phases, step : Nat]
    /\ thread \in [Threads -> Places]
    /\ started \in 0..3
    /\ stopping \in BOOLEAN
    /\ result \in {0, -1}
    /\ status \in {0, 1}
    /\ srp \in BOOLEAN
    /\ lost \subseteq Services
    /\ failed \in BOOLEAN
    /\ advert \in [Services -> {"silent", "alive", "withdrawn"}]

(* The steps of airplay_server_init are numbered from 1; what the program  *)
(* does before has numbers up to 0, what it does afterwards has 13.        *)
Offset == IF program = "embedded" THEN 1 ELSE 2
Now == main.step - Offset

Never == 14

(* The number of the step that acquires a resource.                        *)
Rank(r) ==
    CASE r = "net" -> IF program = "windows" THEN -1 ELSE 0
      [] r = "crypto" -> 1
      [] r = "control_lock" -> 2
      [] r = "rtsp_lock" -> 3
      [] r = "rtsp_listener" -> 4
      [] r = "audio_socket" -> 6
      [] r = "control_socket" -> 7
      [] r = "timing_socket" -> 8
      [] r = "buffered_listener" -> 9
      [] r = "mdns_socket" -> 10
      [] r = "console" -> IF program = "windows" THEN 13 ELSE Never
      [] r = "event_group" -> IF program = "embedded" THEN 13 ELSE Never
      [] OTHER -> Never

(* The number of the step that sets a flag.                                *)
FlagRank(f) ==
    CASE f = "initialized" -> 2
      [] f = "rtsp" -> 4
      [] f = "pipeline" -> 9
      [] OTHER -> 12

(* While it starts, the program holds what the steps before acquired.      *)
Starting ==
    /\ main.step \in 1..Len(InitSteps(program))
    /\ \A r \in Resources : held[r] = 1 <=> Rank(r) < Now
    /\ \A f \in AllFlags : f \in flags <=> FlagRank(f) < Now
    /\ \A t \in Threads : thread[t] = "unborn"
    /\ started = 0 /\ ~srp /\ ~failed /\ status = 1
    /\ Now > 1 => result = 0

(* A thread that is not counted in started: joined, or never created.      *)
NotRunning(t) == thread[t] = "unborn" \/ (At("join") /\ thread[t] = "exited")

(* While it serves, everything is there; only the audio thread opens the   *)
(* PTP sockets and the device, and it closes the device before it returns. *)
Serving ==
    /\ \A r \in Resources \ {"ptp", "device"} : held[r] = 1 <=> Rank(r) < Never
    /\ held["ptp"] = 1 => thread["audio"] # "unborn"
    /\ held["device"] = 1 => thread["audio"] \notin {"unborn", "return", "exited"}
    /\ flags = AllFlags
    /\ result = 0 <=> ~failed
    /\ srp => thread["rtsp"] # "unborn"
    /\ started >= 1 => thread["mdns"] # "unborn"
    /\ started >= 2 => thread["rtsp"] # "unborn"
    /\ started >= 3 => thread["audio"] # "unborn"
    /\ At("spawn") => main.step \in 1..3 /\ started = main.step - 1
    /\ At("wait") => started = 3
    /\ started < 1 => NotRunning("mdns")
    /\ started < 2 => NotRunning("rtsp")
    /\ started < 3 => NotRunning("audio")
    /\ At("spawn") \/ At("wait") => status = 1
    /\ At("stop") \/ At("join") => (status = 0 <=> \A t \in Threads : thread[t] # "unborn")

(* While it releases, what is ahead in the list is held if its flag says   *)
(* so, and what is behind is not.                                          *)
ReleasedAt(r) ==
    CASE r = "device" -> 1
      [] r = "mdns_socket" -> 4
      [] r = "audio_socket" -> 5
      [] r = "control_socket" -> 6
      [] r = "timing_socket" -> 7
      [] r = "buffered_listener" -> 8
      [] r = "ptp" -> 9
      [] r = "rtsp_listener" -> 10
      [] r = "rtsp_lock" -> 11
      [] r = "control_lock" -> 12
      [] r = "crypto" -> 13
      [] r = "net" -> 14
      [] OTHER -> 0

Ended == \A t \in Threads : thread[t] \in {"unborn", "exited"}

StatusSettled == status = 0 <=> ~failed /\ \A t \in Threads : thread[t] = "exited"

Releasing ==
    /\ main.step \in 1..Len(DeinitSteps)
    /\ \A r \in Resources : ReleasedAt(r) < main.step => held[r] = 0
    /\ \A r \in Resources \ {"device", "ptp"} :
          ReleasedAt(r) >= main.step => (held[r] = 1 <=> Guarded(r))
    /\ Ended /\ StatusSettled
    /\ started = 0
    /\ srp => main.step <= 10
    /\ main.step = 14 => flags = {}
    /\ thread["mdns"] # "unborn" =>
          /\ main.step <= 13 => flags = AllFlags
          /\ main.step > 2 => "raop" \in lost \/ advert["raop"] = "withdrawn"
          /\ main.step > 3 => "airplay" \in lost \/ advert["airplay"] = "withdrawn"

Over ==
    /\ \A r \in Resources : held[r] = 0
    /\ flags = {} /\ started = 0 /\ ~srp
    /\ Ended /\ StatusSettled
    /\ Withdrawn

ServingPhases == {"spawn", "wait", "stop", "join"}

(* Only the mDNS thread handles packets, and only audio leaves.            *)
ThreadPlaces ==
    /\ thread["audio"] \notin {"raop", "airplay"}
    /\ thread["rtsp"] \notin {"raop", "airplay", "leave"}
    /\ thread["mdns"] # "leave"

(* The inductive invariant. *)
LifecycleInv ==
    /\ LifecycleType
    /\ At("init") => Starting
    /\ main.phase \in ServingPhases => Serving
    /\ At("deinit") => Releasing
    /\ At("done") => Over
    /\ ThreadPlaces

----------------------------------------------------------------------------
Prelude == {"sigaction", "net", "detect_identity"}

(* The three lists of steps: a prelude, airplay_server_init, and an end.   *)
LEMMA StepLists ==
    /\ Len(PosixSteps) = 14 /\ Len(WindowsSteps) = 15 /\ Len(EmbeddedSteps) = 14
    /\ \A i \in 1..12 : /\ PosixSteps[i + 2] = ServerSteps[i]
                        /\ WindowsSteps[i + 2] = ServerSteps[i]
                        /\ EmbeddedSteps[i + 1] = ServerSteps[i]
    /\ PosixSteps[1] = "sigaction" /\ PosixSteps[2] = "net"
    /\ WindowsSteps[1] = "net" /\ WindowsSteps[2] = "detect_identity"
    /\ WindowsSteps[15] = "console"
    /\ EmbeddedSteps[1] = "net" /\ EmbeddedSteps[14] = "event_group"
BY DEF PosixSteps, WindowsSteps, EmbeddedSteps, ServerSteps

(* Which step of its list the program takes, by the number of the step.    *)
LEMMA StepOf ==
    ASSUME program \in Programs, main.step \in 1..Len(InitSteps(program)),
           NEW step, step = InitSteps(program)[main.step]
    PROVE  /\ Now \in 1..12 => step = ServerSteps[Now]
           /\ Now = 0 => step = IF program = "windows" THEN "detect_identity" ELSE "net"
           /\ Now = -1 => step = IF program = "windows" THEN "net" ELSE "sigaction"
           /\ Now = 13 => step = IF program = "windows" THEN "console" ELSE "event_group"
           /\ Now \in -1..13
           /\ program # "windows" => (Now # -1 \/ program = "posix")
           /\ program = "posix" => Now # 13
           /\ program = "posix" => (main.step = Len(InitSteps(program)) <=> Now = 12)
           /\ program # "posix" => (main.step = Len(InitSteps(program)) <=> Now = 13)
<1>1. CASE program = "posix"
  <2>1. /\ Len(InitSteps(program)) = 14
        /\ main.step \in 1..14 /\ step = PosixSteps[main.step] /\ Now = main.step - 2
    BY <1>1, StepLists DEF InitSteps, Now, Offset
  <2>2. Now \in 1..12 => step = ServerSteps[Now]
    <3> HAVE Now \in 1..12
    <3>1. main.step = Now + 2
      BY <2>1
    <3> QED BY <2>1, <3>1, StepLists
  <2>3. PosixSteps[1] = "sigaction" /\ PosixSteps[2] = "net"
    BY StepLists
  <2>4. main.step = Len(InitSteps(program)) <=> main.step = 14
    BY <2>1, Zenon
  <2>5. /\ Now \in -1..12
        /\ main.step = 14 <=> Now = 12
        /\ \A n \in -1..13: Now = n => main.step = n + 2
    BY ONLY <2>1
  <2>6. /\ Now = 0 => main.step = 2
        /\ Now = -1 => main.step = 1
        /\ Now = 13 => main.step = 15
    BY ONLY <2>5
  <2>7. /\ Now \in -1..13
        /\ program # "posix" => Now # -1 \/ program = "windows"
        /\ program = "posix" => Now # 13
    BY ONLY <1>1, <2>5
  <2> QED BY ONLY <1>1, <2>1, <2>2, <2>3, <2>4, <2>5, <2>6, <2>7
<1>2. CASE program = "windows"
  <2>1. /\ Len(InitSteps(program)) = 15
        /\ main.step \in 1..15 /\ step = WindowsSteps[main.step] /\ Now = main.step - 2
    BY <1>2, StepLists DEF InitSteps, Now, Offset
  <2>2. Now \in 1..12 => step = ServerSteps[Now]
    <3> HAVE Now \in 1..12
    <3>1. main.step = Now + 2
      BY <2>1
    <3> QED BY <2>1, <3>1, StepLists
  <2>3. /\ WindowsSteps[1] = "net"
        /\ WindowsSteps[2] = "detect_identity"
        /\ WindowsSteps[15] = "console"
    BY StepLists
  <2>4. main.step = Len(InitSteps(program)) <=> main.step = 15
    BY <2>1, Zenon
  <2>5. /\ Now \in -1..13
        /\ main.step = 15 <=> Now = 13
        /\ \A n \in -1..13: Now = n => main.step = n + 2
    BY ONLY <2>1
  <2>6. /\ Now = 0 => main.step = 2
        /\ Now = -1 => main.step = 1
        /\ Now = 13 => main.step = 15
    BY ONLY <2>5
  <2>7. /\ Now \in -1..13
        /\ program # "posix" => Now # -1 \/ program = "windows"
        /\ program = "posix" => Now # 13
    BY ONLY <1>2, <2>5
  <2> QED BY ONLY <1>2, <2>1, <2>2, <2>3, <2>4, <2>5, <2>6, <2>7
<1>3. CASE program = "embedded"
  <2>1. /\ Len(InitSteps(program)) = 14
        /\ main.step \in 1..14 /\ step = EmbeddedSteps[main.step] /\ Now = main.step - 1
    BY <1>3, StepLists DEF InitSteps, Now, Offset
  <2>2. Now \in 1..12 => step = ServerSteps[Now]
    <3> HAVE Now \in 1..12
    <3>1. main.step = Now + 1
      BY <2>1
    <3> QED BY <2>1, <3>1, StepLists
  <2>3. EmbeddedSteps[1] = "net" /\ EmbeddedSteps[14] = "event_group"
    BY StepLists
  <2>4. main.step = Len(InitSteps(program)) <=> main.step = 14
    BY <2>1, Zenon
  <2>5. /\ Now \in 0..13
        /\ main.step = 14 <=> Now = 13
        /\ \A n \in -1..13: Now = n => main.step = n + 1
    BY ONLY <2>1
  <2>6. /\ Now = 0 => main.step = 1
        /\ Now = -1 => main.step = 0
        /\ Now = 13 => main.step = 14
    BY ONLY <2>5
  <2>7. /\ Now \in -1..13
        /\ program # "posix" => Now # -1 \/ program = "windows"
        /\ program = "posix" => Now # 13
    BY ONLY <1>3, <2>5
  <2> QED BY ONLY <1>3, <2>1, <2>2, <2>3, <2>4, <2>5, <2>6, <2>7
<1> QED BY <1>1, <1>2, <1>3 DEF Programs
(* The step taken next, by its number.                                     *)
StepNamed(step) ==
    \/ Now = -1 /\ step = "sigaction" /\ program = "posix"
    \/ Now = -1 /\ step = "net" /\ program = "windows"
    \/ Now = 0 /\ step = "net" /\ program # "windows"
    \/ Now = 0 /\ step = "detect_identity" /\ program = "windows"
    \/ Now = 1 /\ step = "crypto"
    \/ Now = 2 /\ step = "control_lock"
    \/ Now = 3 /\ step = "rtsp_lock"
    \/ Now = 4 /\ step = "rtsp_listener"
    \/ Now = 5 /\ step = "identity"
    \/ Now = 6 /\ step = "audio_socket"
    \/ Now = 7 /\ step = "control_socket"
    \/ Now = 8 /\ step = "timing_socket"
    \/ Now = 9 /\ step = "buffered_listener"
    \/ Now = 10 /\ step = "mdns_socket"
    \/ Now = 11 /\ step = "raop"
    \/ Now = 12 /\ step = "airplay"
    \/ Now = 13 /\ step = "console" /\ program = "windows"
    \/ Now = 13 /\ step = "event_group" /\ program = "embedded"

(* The step that InitStep and InitFails take has the name its number says. *)
LEMMA StepNames ==
    ASSUME program \in Programs, main.step \in 1..Len(InitSteps(program))
    PROVE  StepNamed(InitSteps(program)[main.step])
<1> DEFINE step == InitSteps(program)[main.step]
<1>1. /\ Now \in 1..12 => step = ServerSteps[Now]
      /\ Now = 0 => step = IF program = "windows" THEN "detect_identity" ELSE "net"
      /\ Now = -1 => step = IF program = "windows" THEN "net" ELSE "sigaction"
      /\ Now = 13 => step = IF program = "windows" THEN "console" ELSE "event_group"
      /\ Now \in -1..13
      /\ program # "windows" => (Now # -1 \/ program = "posix")
      /\ program = "posix" => Now # 13
  BY StepOf
<1> HIDE DEF step
<1>2. CASE Now \in 1..12
  <2>1. step = ServerSteps[Now]
    BY <1>1, <1>2
  <2>2. StepNamed(step)
    BY <1>2, <2>1 DEF StepNamed, ServerSteps
  <2> QED BY <2>2 DEF step
<1>3. CASE Now \in {-1, 0, 13}
  <2>1. StepNamed(step)
    BY <1>1, <1>3 DEF StepNamed, Programs
  <2> QED BY <2>1 DEF step
<1> QED BY <1>1, <1>2, <1>3

(* A resource is acquired at its step and at no other.                     *)
LEMMA StepAcquires ==
    ASSUME NEW step, program \in Programs, StepNamed(step)
    PROVE  /\ Now \in Int
           /\ step \in Resources => Rank(step) = Now
           /\ \A r \in Resources : Rank(r) = Now => r = step
           /\ \A r \in Resources : Rank(r) \in Int
BY DEF StepNamed, Rank, Resources, RtspParts, PipelineParts, DiscoveryParts, Never

(* Each flag is set at the step that completes what it stands for.         *)
LEMMA StepFlags ==
    ASSUME NEW step, program \in Programs, StepNamed(step)
    PROVE  /\ \A f \in AllFlags : f \in FlagOf(step) <=> FlagRank(f) = Now
           /\ FlagOf(step) \subseteq AllFlags
BY DEF StepNamed, FlagOf, FlagRank, AllFlags

----------------------------------------------------------------------------
(* The invariant holds when the program starts.                            *)
LEMMA InitLifecycle == Init => LifecycleInv
<1> SUFFICES ASSUME Init PROVE LifecycleInv
  OBVIOUS
<1>1. LifecycleType
  <2>1. main \in [phase : Phases, step : Nat] /\ started \in 0..3
    BY DEF Init, Phases
  <2>2. held \in [Resources -> {0, 1}] /\ thread \in [Threads -> Places]
    BY DEF Init, Places
  <2>3. advert \in [Services -> {"silent", "alive", "withdrawn"}]
    BY DEF Init, DiscoveryInit
  <2> QED BY <2>1, <2>2, <2>3 DEF Init, LifecycleType
<1>2. At("init") /\ ~At("deinit") /\ ~At("done") /\ main.phase \notin ServingPhases
  BY DEF Init, At, ServingPhases
<1>3. main.step = 1 /\ program \in Programs
  BY DEF Init
<1>4. main.step \in 1..Len(InitSteps(program))
  <2> DEFINE n == Len(InitSteps(program))
  <2>1. n = 14 \/ n = 15
    BY <1>3, StepLists DEF InitSteps, Programs
  <2> HIDE DEF n
  <2>2. main.step \in 1..n
    BY <1>3, <2>1
  <2> QED BY <2>2 DEF n
<1>5. Now \in {-1, 0} /\ (program = "windows" => Now = -1)
  BY <1>3 DEF Now, Offset, Programs
<1>6. \A r \in Resources : held[r] = 0 /\ ~(Rank(r) < Now)
  BY <1>5 DEF Init, Rank, Never
<1>7. \A f \in AllFlags : f \notin flags /\ ~(FlagRank(f) < Now)
  BY <1>5 DEF Init, FlagRank
<1>8. Starting
  BY <1>4, <1>5, <1>6, <1>7 DEF Starting, Init
<1> QED BY <1>1, <1>2, <1>8 DEF LifecycleInv, ThreadPlaces, Init, Threads

(* A step of the start that succeeds.                                      *)
LEMMA InitStepInv ==
    ASSUME LifecycleInv, InitStep
    PROVE  LifecycleInv'
<1> DEFINE step == InitSteps(program)[main.step]
<1>1. LifecycleType /\ Starting
  BY DEF LifecycleInv, InitStep
<1>2. program \in Programs /\ main.step \in 1..Len(InitSteps(program)) /\ program' = program
  BY <1>1 DEF LifecycleType, Starting, InitStep
<1>3. StepNamed(step)
  BY <1>2, StepNames
<1>4. /\ IF step \in Resources THEN Acquire(step) ELSE UNCHANGED held
      /\ flags' = flags \cup FlagOf(step)
      /\ memset_server(step)
      /\ IF step \in Services THEN mdns_announce(step) ELSE UNCHANGED advert
      /\ IF main.step = Len(InitSteps(program)) THEN Goto("spawn", 1)
         ELSE Goto("init", main.step + 1)
  BY DEF InitStep
<1> HIDE DEF step
<1>5. /\ Now \in Int
      /\ step \in Resources => Rank(step) = Now
      /\ \A r \in Resources : Rank(r) = Now => r = step
      /\ \A r \in Resources : Rank(r) \in Int /\ Rank(r)' = Rank(r)
  BY <1>2, <1>3, StepAcquires DEF Rank
<1>6. /\ held' \in [Resources -> {0, 1}]
      /\ \A r \in Resources : held'[r] = 1 <=> Rank(r) < Now + 1
  <2>1. /\ held \in [Resources -> {0, 1}]
        /\ \A r \in Resources : held[r] = 1 <=> Rank(r) < Now
    BY <1>1 DEF LifecycleType, Starting
  <2>2. CASE step \in Resources
    BY <1>4, <1>5, <2>1, <2>2 DEF Acquire
  <2>3. CASE step \notin Resources
    BY <1>4, <1>5, <2>1, <2>3
  <2> QED BY <2>2, <2>3
<1>7. /\ flags' \subseteq AllFlags
      /\ \A f \in AllFlags : f \in flags' <=> FlagRank(f) < Now + 1
  <2>1. \A f \in AllFlags : f \in flags <=> FlagRank(f) < Now
    BY <1>1 DEF Starting
  <2>2. \A f \in AllFlags : FlagRank(f) \in Int
    BY DEF FlagRank
  <2>3. flags \subseteq AllFlags
    BY <1>1 DEF LifecycleType
  <2> QED BY <1>2, <1>3, <1>4, <1>5, <2>1, <2>2, <2>3, StepFlags
<1>8. result' \in {0, -1} /\ stopping' \in BOOLEAN /\ (Now + 1 > 1 => result' = 0)
  <2>1. step = "crypto" <=> Now = 1
    BY <1>3 DEF StepNamed
  <2>2. Now \in Int /\ (Now > 1 => result = 0)
    BY <1>1, <1>5 DEF Starting
  <2>3. result \in {0, -1} /\ stopping \in BOOLEAN
    BY <1>1 DEF LifecycleType
  <2>4. CASE step = "crypto"
    BY <1>4, <2>4 DEF memset_server
  <2>5. CASE step # "crypto"
    <3>1. result' = result /\ stopping' = stopping
      BY <1>4, <2>5 DEF memset_server
    <3> QED BY <2>1, <2>2, <2>3, <2>5, <3>1
  <2> QED BY <2>4, <2>5
<1>9. advert' \in [Services -> {"silent", "alive", "withdrawn"}]
  BY <1>1, <1>4 DEF LifecycleType, mdns_announce
<1>10. UNCHANGED <<program, thread, started, status, srp, lost, failed>>
  BY DEF InitStep
<1>11. /\ \A t \in Threads : thread'[t] = "unborn"
       /\ started' = 0 /\ ~srp' /\ ~failed' /\ status' = 1
  BY <1>1, <1>10 DEF Starting
<1>12. ThreadPlaces'
  BY <1>11 DEF ThreadPlaces, Threads
<1>13. main' \in [phase : Phases, step : Nat]
  BY <1>1, <1>4 DEF Starting, Goto, Phases
<1>14. LifecycleType'
  BY <1>1, <1>6, <1>7, <1>8, <1>9, <1>10, <1>13 DEF LifecycleType
<1>15. CASE main.step = Len(InitSteps(program))
  <2>1. At("spawn")' /\ main'.step = 1
    BY <1>4, <1>15 DEF Goto, At
  <2>2. (program = "posix" => Now = 12) /\ (program # "posix" => Now = 13)
    BY <1>2, <1>15, StepOf
  <2>3. \A r \in Resources \ {"ptp", "device"} : held'[r] = 1 <=> Rank(r) < Never
    BY <1>2, <1>6, <2>2 DEF Rank, Never, Resources, RtspParts, PipelineParts, DiscoveryParts
  <2>4. held'["ptp"] = 0 /\ held'["device"] = 0
    <3>1. "ptp" \in Resources /\ "device" \in Resources /\ Rank("ptp") = 14 /\ Rank("device") = 14
      BY DEF Resources, Rank, Never
    <3> QED BY <1>6, <2>2, <3>1
  <2>5. flags' = AllFlags
    BY <1>7, <2>2 DEF FlagRank
  <2>6. result' = 0
    BY <1>8, <2>2
  <2>7. Serving'
    BY <1>5, <1>11, <2>1, <2>3, <2>4, <2>5, <2>6 DEF Serving, NotRunning, At, Threads
  <2> QED BY <1>12, <1>14, <2>1, <2>7 DEF LifecycleInv, At, ThreadPlaces
<1>16. CASE main.step # Len(InitSteps(program))
  <2>1. At("init")' /\ main'.step = main.step + 1
    BY <1>4, <1>16 DEF Goto, At
  <2>2. Now' = Now + 1 /\ main'.step \in 1..Len(InitSteps(program'))
    BY <1>2, <1>16, <2>1 DEF Now, Offset
  <2>3. Starting'
    BY <1>5, <1>6, <1>7, <1>8, <1>11, <2>2 DEF Starting, FlagRank
  <2> QED BY <1>12, <1>14, <2>1, <2>3 DEF LifecycleInv, At, ThreadPlaces, ServingPhases
<1> QED BY <1>15, <1>16

(* The clean-up of a function that fails, or of an owner, releases what it *)
(* owns and holds, and leaves the rest.                                    *)
LEMMA ReleasesHeld ==
    ASSUME held \in [Resources -> {0, 1}], NEW rs \in SUBSET Resources, ReleaseAll(Held(rs))
    PROVE  /\ held' \in [Resources -> {0, 1}]
           /\ \A r \in Resources : held'[r] = IF r \in rs THEN 0 ELSE held[r]
<1>1. \A r \in Resources : held[r] \in {0, 1} /\ (r \in Held(rs) <=> r \in rs /\ held[r] = 1)
  BY DEF Held
<1>2. held' = [r \in Resources |-> IF r \in Held(rs) THEN held[r] - 1 ELSE held[r]]
  BY DEF ReleaseAll
<1>3. \A r \in Resources : held'[r] = IF r \in rs THEN 0 ELSE held[r]
  BY <1>1, <1>2
<1>4. \A r \in Resources : (IF r \in Held(rs) THEN held[r] - 1 ELSE held[r]) \in {0, 1}
  BY <1>1
<1> QED BY <1>2, <1>3, <1>4

(* What a step that fails undoes, with what was acquired before it, leaves *)
(* exactly the groups whose flags are set.                                 *)
LEMMA StepUndone ==
    ASSUME NEW step, program \in Programs, StepNamed(step)
    PROVE  /\ UndoneBy(step) \subseteq Resources
           /\ step \in {"sigaction", "net"} =>
                 /\ \A r \in Resources : ~(Rank(r) < Now)
                 /\ \A f \in AllFlags : ~(FlagRank(f) < Now)
                 /\ UndoneBy(step) = {}
           /\ step \in {"detect_identity", "crypto", "control_lock"} =>
                 /\ \A r \in Resources : Rank(r) < Now /\ r \notin UndoneBy(step) <=> r = "net"
                 /\ \A f \in AllFlags : ~(FlagRank(f) < Now)
           /\ step \notin Prelude \cup {"crypto", "control_lock"} =>
                 /\ \A r \in RtspParts : Rank(r) < Now /\ r \notin UndoneBy(step) <=> 4 < Now
                 /\ \A r \in PipelineParts : Rank(r) < Now /\ r \notin UndoneBy(step) <=> 9 < Now
                 /\ \A r \in DiscoveryParts : Rank(r) < Now /\ r \notin UndoneBy(step) <=> 12 < Now
                 /\ \A r \in {"net", "crypto", "control_lock"} :
                       Rank(r) < Now /\ r \notin UndoneBy(step)
                 /\ \A r \in {"console", "event_group", "device", "ptp"} : ~(Rank(r) < Now)
<1> USE DEF Prelude, Services, Never
<1>1. UndoneBy(step) \subseteq Resources
  BY DEF UndoneBy, Resources, RtspParts, PipelineParts, DiscoveryParts
<1>2. step \in {"sigaction", "net"} =>
         /\ \A r \in Resources : ~(Rank(r) < Now)
         /\ \A f \in AllFlags : ~(FlagRank(f) < Now)
         /\ UndoneBy(step) = {}
  BY DEF StepNamed, Rank, FlagRank, UndoneBy, RtspParts, PipelineParts, DiscoveryParts
<1>3. step \in {"detect_identity", "crypto", "control_lock"} =>
         /\ \A r \in Resources : Rank(r) < Now /\ r \notin UndoneBy(step) <=> r = "net"
         /\ \A f \in AllFlags : ~(FlagRank(f) < Now)
  BY DEF StepNamed, Rank, FlagRank, UndoneBy, Resources, RtspParts, PipelineParts,
         DiscoveryParts
<1>4. step \notin Prelude \cup {"crypto", "control_lock"} =>
         /\ \A r \in RtspParts : Rank(r) < Now /\ r \notin UndoneBy(step) <=> 4 < Now
         /\ \A r \in PipelineParts : Rank(r) < Now /\ r \notin UndoneBy(step) <=> 9 < Now
         /\ \A r \in DiscoveryParts : Rank(r) < Now /\ r \notin UndoneBy(step) <=> 12 < Now
         /\ \A r \in {"net", "crypto", "control_lock"} :
               Rank(r) < Now /\ r \notin UndoneBy(step)
         /\ \A r \in {"console", "event_group", "device", "ptp"} : ~(Rank(r) < Now)
  BY DEF StepNamed, Rank, UndoneBy, RtspParts, PipelineParts, DiscoveryParts
<1> QED BY <1>1, <1>2, <1>3, <1>4

(* A step of the start that fails.                                         *)
LEMMA InitFailsInv ==
    ASSUME LifecycleInv, InitFails
    PROVE  LifecycleInv'
<1> DEFINE step == InitSteps(program)[main.step]
<1>1. LifecycleType /\ Starting
  BY DEF LifecycleInv, InitFails
<1>2. program \in Programs /\ main.step \in 1..Len(InitSteps(program)) /\ program' = program
  BY <1>1 DEF LifecycleType, Starting, InitFails
<1>3. StepNamed(step)
  BY <1>2, StepNames
<1>4. /\ CASE step \in {"sigaction", "net"} -> Goto("done", 0)
           [] step \in {"detect_identity", "crypto", "control_lock"} ->
                Goto("deinit", Len(DeinitSteps))
           [] OTHER -> Goto("deinit", 1)
      /\ ReleaseAll(Held(UndoneBy(step)))
      /\ memset_server(step)
  BY DEF InitFails
<1> HIDE DEF step
<1>5. UndoneBy(step) \in SUBSET Resources
  BY <1>2, <1>3, StepUndone
<1>6. /\ held' \in [Resources -> {0, 1}]
      /\ \A r \in Resources : held'[r] = 1 <=> Rank(r) < Now /\ r \notin UndoneBy(step)
  <2>1. /\ held \in [Resources -> {0, 1}]
        /\ \A r \in Resources : held[r] = 1 <=> Rank(r) < Now
    BY <1>1 DEF LifecycleType, Starting
  <2>2. /\ held' \in [Resources -> {0, 1}]
        /\ \A r \in Resources : held'[r] = IF r \in UndoneBy(step) THEN 0 ELSE held[r]
    BY <1>4, <1>5, <2>1, ReleasesHeld
  <2> QED BY <2>1, <2>2
<1>7. result' \in {0, -1} /\ stopping' \in BOOLEAN
  BY <1>1, <1>4 DEF memset_server, LifecycleType
<1>8. UNCHANGED <<program, flags, thread, started, status, srp, lost, failed, advert>>
  BY DEF InitFails, discoveryVars
<1>9. /\ \A t \in Threads : thread'[t] = "unborn"
      /\ started' = 0 /\ ~srp' /\ ~failed' /\ status' = 1
  BY <1>1, <1>8 DEF Starting
<1>10. ThreadPlaces' /\ Ended' /\ StatusSettled'
  BY <1>9 DEF ThreadPlaces, Ended, StatusSettled, Threads
<1>11. Len(DeinitSteps) = 14
  BY DEF DeinitSteps
<1>12. main' \in [phase : Phases, step : Nat]
  BY <1>4, <1>11 DEF Goto, Phases
<1>13. LifecycleType'
  BY <1>1, <1>6, <1>7, <1>8, <1>12 DEF LifecycleType
<1>14. flags \subseteq AllFlags /\ \A f \in AllFlags : f \in flags <=> FlagRank(f) < Now
  BY <1>1 DEF LifecycleType, Starting
<1>15. CASE step \in {"sigaction", "net"}
  <2>1. At("done")'
    BY <1>4, <1>15 DEF Goto, At
  <2>2. flags' = {} /\ \A r \in Resources : held'[r] = 0
    BY <1>2, <1>3, <1>6, <1>8, <1>14, <1>15, StepUndone
  <2>3. Withdrawn'
    BY <1>9 DEF Withdrawn, Threads
  <2>4. Over'
    BY <1>9, <1>10, <2>2, <2>3 DEF Over
  <2> QED BY <1>10, <1>13, <2>1, <2>4 DEF LifecycleInv, At, ServingPhases
<1>16. CASE step \in {"detect_identity", "crypto", "control_lock"}
  <2>1. At("deinit")' /\ main'.step = 14
    BY <1>4, <1>11, <1>16 DEF Goto, At
  <2>2. flags' = {} /\ \A r \in Resources : held'[r] = 1 <=> r = "net"
    BY <1>2, <1>3, <1>6, <1>8, <1>14, <1>16, StepUndone
  <2>3. \A r \in Resources : ReleasedAt(r) < 14 <=> r # "net"
    BY DEF ReleasedAt
  <2>4. Guarded("net")'
    BY DEF Guarded, RtspParts, PipelineParts, DiscoveryParts, Services
  <2>5. \A r \in Resources : ReleasedAt(r) < 14 => held'[r] = 0
    BY <1>6, <2>2, <2>3
  <2>6. \A r \in Resources : ReleasedAt(r) >= 14 => r = "net"
    BY DEF ReleasedAt
  <2>7. \A r \in Resources \ {"device", "ptp"} :
           ReleasedAt(r) >= 14 => (held'[r] = 1 <=> Guarded(r)')
    BY <2>2, <2>4, <2>6
  <2>8. Releasing'
    BY <1>9, <1>10, <1>11, <2>1, <2>2, <2>5, <2>7 DEF Releasing, Threads
  <2> QED BY <1>10, <1>13, <2>1, <2>8 DEF LifecycleInv, At, ServingPhases
<1>17. CASE step \notin {"sigaction", "net", "detect_identity", "crypto", "control_lock"}
  <2>1. At("deinit")' /\ main'.step = 1
    BY <1>4, <1>17 DEF Goto, At
  <2>2. step \notin Prelude \cup {"crypto", "control_lock"}
    BY <1>17 DEF Prelude
  <2>3. /\ \A r \in RtspParts : held'[r] = 1 <=> "rtsp" \in flags'
        /\ \A r \in PipelineParts : held'[r] = 1 <=> "pipeline" \in flags'
        /\ \A r \in DiscoveryParts : held'[r] = 1 <=> "discovery" \in flags'
        /\ \A r \in {"net", "crypto", "control_lock"} : held'[r] = 1
        /\ \A r \in {"console", "event_group", "device", "ptp"} : held'[r] = 0
    <3>1. /\ "rtsp" \in flags' <=> 4 < Now
          /\ "pipeline" \in flags' <=> 9 < Now
          /\ "discovery" \in flags' <=> 12 < Now
      BY <1>8, <1>14 DEF FlagRank, AllFlags
    <3>2. /\ RtspParts \subseteq Resources /\ PipelineParts \subseteq Resources
          /\ DiscoveryParts \subseteq Resources
          /\ {"net", "crypto", "control_lock"} \subseteq Resources
          /\ {"console", "event_group", "device", "ptp"} \subseteq Resources
      BY DEF Resources
    <3>3. \A r \in Resources : held'[r] \in {0, 1}
      BY <1>6
    <3> QED BY <1>2, <1>3, <1>6, <2>2, <3>1, <3>2, <3>3, StepUndone
  <2>4. \A r \in Resources : ReleasedAt(r) < 1 => r \in {"console", "event_group"}
    BY DEF ReleasedAt, Resources, RtspParts, PipelineParts, DiscoveryParts
  <2>5. \A r \in Resources \ {"device", "ptp"} :
           ReleasedAt(r) >= 1 => (held'[r] = 1 <=> Guarded(r)')
    BY <2>3 DEF ReleasedAt, Guarded, Resources, RtspParts, PipelineParts, DiscoveryParts,
                Services
  <2>6. Releasing'
    BY <1>9, <1>10, <1>11, <2>1, <2>3, <2>4, <2>5 DEF Releasing, Threads
  <2> QED BY <1>10, <1>13, <2>1, <2>6 DEF LifecycleInv, At, ServingPhases
<1> QED BY <1>15, <1>16, <1>17

(* The order of the threads, spelled out.                                  *)
LEMMA ThreeEntries ==
    /\ Entries[1] = "mdns" /\ Entries[2] = "rtsp" /\ Entries[3] = "audio" /\ Len(Entries) = 3
    /\ Threads = {Entries[1], Entries[2], Entries[3]}
BY DEF Entries, Threads

(* The threads are created, or one cannot be.                              *)
LEMMA SpawnInv ==
    ASSUME LifecycleInv, SpawnThread \/ SpawnFails
    PROVE  LifecycleInv'
<1>1. LifecycleType /\ Serving /\ At("spawn") /\ ThreadPlaces
  BY DEF LifecycleInv, SpawnThread, SpawnFails, At, ServingPhases
<1>2. main.step \in 1..3 /\ started = main.step - 1 /\ status = 1
  BY <1>1 DEF Serving
<1>3. CASE SpawnThread
  <2>1. /\ thread' = [thread EXCEPT ![Entries[main.step]] = "check"]
        /\ started' = main.step
        /\ IF main.step = 3 THEN Goto("wait", 0) ELSE Goto("spawn", main.step + 1)
        /\ UNCHANGED <<program, held, flags, stopping, result, failed, status, srp, lost, advert>>
    BY <1>3, ThreeEntries DEF SpawnThread, discoveryVars
  <2>2. main' \in [phase : Phases, step : Nat] /\ started' \in 0..3
    BY <1>2, <2>1 DEF Goto, Phases
  <2>3. Entries[main.step] \in Threads
    BY <1>2, ThreeEntries
  <2>4. thread' \in [Threads -> Places]
    BY <1>1, <2>1, <2>3 DEF LifecycleType, Places
  <2>5. LifecycleType'
    BY <1>1, <2>1, <2>2, <2>4 DEF LifecycleType
  <2>6. ThreadPlaces'
    BY <1>1, <2>1 DEF ThreadPlaces, LifecycleType, Threads
  <2>7. /\ At("spawn")' => main'.step \in 1..3 /\ started' = main'.step - 1
        /\ At("wait")' => started' = 3
        /\ main'.phase \in {"spawn", "wait"}
    BY <1>2, <2>1 DEF Goto, At
  <2>8. \A r \in Resources : Rank(r)' = Rank(r)
    BY <2>1 DEF Rank
  <2>9. /\ thread'["mdns"] = IF main.step = 1 THEN "check" ELSE thread["mdns"]
        /\ thread'["rtsp"] = IF main.step = 2 THEN "check" ELSE thread["rtsp"]
        /\ thread'["audio"] = IF main.step = 3 THEN "check" ELSE thread["audio"]
    BY <1>1, <1>2, <2>1, ThreeEntries DEF LifecycleType, Threads
  <2>10. Serving'
    BY <1>1, <1>2, <2>1, <2>7, <2>8, <2>9 DEF Serving, NotRunning, At
  <2> QED BY <2>5, <2>6, <2>7, <2>10 DEF LifecycleInv, At, ServingPhases
<1>4. CASE SpawnFails
  <2>1. /\ main' = [phase |-> "stop", step |-> 0]
        /\ UNCHANGED <<program, held, flags, thread, started, stopping, result, failed, status,
                       srp, lost, advert>>
    BY <1>4 DEF SpawnFails, discoveryVars, Goto
  <2>2. LifecycleType' /\ ThreadPlaces'
    BY <1>1, <2>1 DEF LifecycleType, ThreadPlaces, Phases
  <2>3. \A r \in Resources : Rank(r)' = Rank(r)
    BY <2>1 DEF Rank
  <2>4. Serving'
    BY <1>1, <1>2, <2>1, <2>3 DEF Serving, NotRunning, At, Threads
  <2> QED BY <2>1, <2>2, <2>4 DEF LifecycleInv, At, ServingPhases
<1> QED BY <1>3, <1>4

(* main learns that it shall stop, and tells the threads.                  *)
LEMMA StopInv ==
    ASSUME LifecycleInv, WaitEnds \/ airplay_server_stop
    PROVE  LifecycleInv'
<1>1. LifecycleType /\ Serving /\ (At("wait") \/ At("stop")) /\ ThreadPlaces
  BY DEF LifecycleInv, WaitEnds, airplay_server_stop, At, ServingPhases
<1>2. UNCHANGED <<program, held, flags, thread, started, result, failed, srp, lost, advert>>
  BY DEF WaitEnds, airplay_server_stop, discoveryVars
<1>3. /\ stopping' \in BOOLEAN /\ status' \in {0, 1}
      /\ main' \in [phase : Phases, step : Nat]
  <2>1. stopping' \in BOOLEAN
    BY <1>1 DEF WaitEnds, airplay_server_stop, LifecycleType
  <2>2. status' \in {0, 1}
    BY <1>1 DEF WaitEnds, airplay_server_stop, LifecycleType
  <2>3. main' \in [phase : Phases, step : Nat]
    BY DEF WaitEnds, airplay_server_stop, Goto, Phases
  <2> QED BY <2>1, <2>2, <2>3
<1>4. LifecycleType' /\ ThreadPlaces'
  BY <1>1, <1>2, <1>3 DEF LifecycleType, ThreadPlaces
<1>5. \A r \in Resources : Rank(r)' = Rank(r)
  BY <1>2 DEF Rank
<1>6. CASE WaitEnds
  <2>1. main' = [phase |-> "stop", step |-> 0] /\ status' = 0 /\ started = 3
    BY <1>1, <1>6 DEF WaitEnds, Goto, Serving
  <2>2. Serving'
    BY <1>1, <1>2, <1>5, <2>1 DEF Serving, NotRunning, At, Threads
  <2> QED BY <1>4, <2>1, <2>2 DEF LifecycleInv, At, ServingPhases
<1>7. CASE airplay_server_stop
  <2>1. main' = [phase |-> "join", step |-> 0] /\ status' = status /\ At("stop")
    BY <1>1, <1>7 DEF airplay_server_stop, Goto
  <2>2. Serving'
    BY <1>1, <1>2, <1>5, <2>1 DEF Serving, NotRunning, At, Threads
  <2> QED BY <1>4, <2>1, <2>2 DEF LifecycleInv, At, ServingPhases
<1> QED BY <1>6, <1>7

(* A thread is joined after it ended.                                      *)
LEMMA JoinInv ==
    ASSUME LifecycleInv, JoinThread
    PROVE  LifecycleInv'
<1>1. LifecycleType /\ Serving /\ At("join") /\ ThreadPlaces /\ started \in 1..3
  BY DEF LifecycleInv, JoinThread, At, ServingPhases, LifecycleType
<1>2. /\ started' = started - 1
      /\ UNCHANGED <<program, held, flags, main, thread, stopping, result, failed, status,
                     srp, lost, advert>>
  BY DEF JoinThread, discoveryVars
<1>3. thread[Entries[started]] = "exited"
  BY <1>1 DEF JoinThread, Joinable
<1>4. LifecycleType' /\ ThreadPlaces'
  BY <1>1, <1>2 DEF LifecycleType, ThreadPlaces
<1>5. \A r \in Resources : Rank(r)' = Rank(r)
  BY <1>2 DEF Rank
<1>6. /\ started = 1 => thread["mdns"] = "exited"
      /\ started = 2 => thread["rtsp"] = "exited"
      /\ started = 3 => thread["audio"] = "exited"
  BY <1>3, ThreeEntries
<1>7. Serving'
  BY <1>1, <1>2, <1>5, <1>6 DEF Serving, NotRunning, At, Threads
<1> QED BY <1>1, <1>2, <1>4, <1>7 DEF LifecycleInv, At, ServingPhases

(* The program reads the result after the last thread.                     *)
LEMMA ResultInv ==
    ASSUME LifecycleInv, airplay_server_result
    PROVE  LifecycleInv'
<1>1. LifecycleType /\ Serving /\ At("join") /\ ThreadPlaces /\ started = 0
  BY DEF LifecycleInv, airplay_server_result, At, ServingPhases
<1>2. /\ ReleaseAll(Held({"console", "event_group"}))
      /\ main' = [phase |-> "deinit", step |-> 1]
      /\ status' = IF result # 0 THEN 1 ELSE status
      /\ UNCHANGED <<program, flags, thread, started, stopping, result, failed, srp, lost, advert>>
  BY DEF airplay_server_result, discoveryVars, Goto
<1>3. {"console", "event_group"} \in SUBSET Resources
  BY DEF Resources
<1>4. /\ held' \in [Resources -> {0, 1}]
      /\ \A r \in Resources : held'[r] = IF r \in {"console", "event_group"} THEN 0 ELSE held[r]
  BY <1>1, <1>2, <1>3, ReleasesHeld DEF LifecycleType
<1>5. LifecycleType' /\ ThreadPlaces'
  BY <1>1, <1>2, <1>4 DEF LifecycleType, ThreadPlaces, Phases
<1>6. Ended' /\ StatusSettled'
  BY <1>1, <1>2 DEF Serving, NotRunning, Ended, StatusSettled, Threads, LifecycleType
<1>7. \A r \in Resources \ {"device", "ptp", "console", "event_group"} : held'[r] = 1
  BY <1>1, <1>4 DEF Serving, Rank, Never, Resources, RtspParts, PipelineParts, DiscoveryParts
<1>8. \A r \in Resources \ {"device", "ptp"} : Guarded(r)'
  BY <1>1, <1>2 DEF Guarded, Serving, AllFlags
<1>9. \A r \in Resources : ReleasedAt(r) < 1 => r \in {"console", "event_group"}
  BY DEF ReleasedAt, Resources, RtspParts, PipelineParts, DiscoveryParts
<1>10. \A r \in Resources : ReleasedAt(r) >= 1 => r \notin {"console", "event_group"}
  BY DEF ReleasedAt
<1>11. Len(DeinitSteps) = 14
  BY DEF DeinitSteps
<1>12. Releasing'
  BY <1>1, <1>2, <1>4, <1>6, <1>7, <1>8, <1>9, <1>10, <1>11 DEF Releasing, Serving
<1> QED BY <1>2, <1>5, <1>12 DEF LifecycleInv, At, ServingPhases

(* Each resource is released at its step and at no other.                  *)
LEMMA DeinitNames ==
    ASSUME main.step \in 1..Len(DeinitSteps)
    PROVE  LET r == DeinitSteps[main.step] IN
           /\ main.step \in 1..14 /\ Len(DeinitSteps) = 14
           /\ r \in Resources => ReleasedAt(r) = main.step
           /\ \A q \in Resources : ReleasedAt(q) = main.step => q = r
           /\ r = "raop" <=> main.step = 2
           /\ r = "airplay" <=> main.step = 3
           /\ r = "rtsp_listener" <=> main.step = 10
           /\ r = "crypto" <=> main.step = 13
           /\ r = "net" <=> main.step = 14
<1>1. Len(DeinitSteps) = 14
  BY DEF DeinitSteps
<1>2. main.step \in 1..14
  BY <1>1
<1>3. LET r == DeinitSteps[main.step] IN
      /\ r \in Resources => ReleasedAt(r) = main.step
      /\ \A q \in Resources : ReleasedAt(q) = main.step => q = r
  BY <1>2 DEF DeinitSteps, ReleasedAt, Resources, RtspParts, PipelineParts, DiscoveryParts
<1>4. LET r == DeinitSteps[main.step] IN
      /\ r = "raop" <=> main.step = 2
      /\ r = "airplay" <=> main.step = 3
      /\ r = "rtsp_listener" <=> main.step = 10
      /\ r = "crypto" <=> main.step = 13
      /\ r = "net" <=> main.step = 14
  BY <1>2 DEF DeinitSteps
<1> QED BY <1>1, <1>2, <1>3, <1>4

(* A step of airplay_server_deinit or net_deinit.                          *)
LEMMA DeinitInv ==
    ASSUME LifecycleInv, DeinitStep
    PROVE  LifecycleInv'
<1> DEFINE r == DeinitSteps[main.step]
<1>1. LifecycleType /\ Releasing /\ ThreadPlaces
  BY DEF LifecycleInv, DeinitStep
<1>2. /\ main.step \in 1..14 /\ Len(DeinitSteps) = 14
      /\ r \in Resources => ReleasedAt(r) = main.step
      /\ \A q \in Resources : ReleasedAt(q) = main.step => q = r
      /\ r = "raop" <=> main.step = 2
      /\ r = "airplay" <=> main.step = 3
      /\ r = "rtsp_listener" <=> main.step = 10
      /\ r = "crypto" <=> main.step = 13
      /\ r = "net" <=> main.step = 14
  BY <1>1, DeinitNames DEF Releasing
<1>3. /\ IF Guarded(r) /\ r \in Resources THEN Release(r) ELSE UNCHANGED held
      /\ IF Guarded(r) /\ r \in Services THEN Goodbye(r) ELSE UNCHANGED <<advert, lost>>
      /\ srp' = IF r = "rtsp_listener" THEN FALSE ELSE srp
      /\ flags' = IF r = "crypto" THEN {} ELSE flags
      /\ IF main.step = Len(DeinitSteps) THEN Goto("done", 0) ELSE Goto("deinit", main.step + 1)
      /\ UNCHANGED <<program, thread, started, stopping, result, failed, status>>
  BY DEF DeinitStep
<1> HIDE DEF r
<1>4. /\ held' \in [Resources -> {0, 1}]
      /\ \A q \in Resources : held'[q] = IF q = r THEN 0 ELSE held[q]
  <2>1. held \in [Resources -> {0, 1}]
    BY <1>1 DEF LifecycleType
  <2>2. r \in Resources => (held[r] = 1 <=> Guarded(r))
    <3>1. CASE r \in {"device", "ptp"}
      BY <2>1, <3>1 DEF Guarded, Resources, RtspParts, PipelineParts, DiscoveryParts, Services
    <3>2. CASE r \in Resources \ {"device", "ptp"}
      BY <1>1, <1>2, <3>2 DEF Releasing
    <3> QED BY <3>1, <3>2
  <2>3. CASE r \in Resources /\ Guarded(r)
    BY <1>3, <2>1, <2>2, <2>3 DEF Release, ReleaseAll
  <2>4. CASE ~(r \in Resources /\ Guarded(r))
    BY <1>3, <2>1, <2>2, <2>4
  <2> QED BY <2>3, <2>4
<1>5. \A q \in Resources : ReleasedAt(q) < main.step + 1 => held'[q] = 0
  <2>1. \A q \in Resources : ReleasedAt(q) \in Nat
    BY DEF ReleasedAt
  <2>2. \A q \in Resources : ReleasedAt(q) < main.step => held[q] = 0
    BY <1>1 DEF Releasing
  <2> QED BY <1>2, <1>4, <2>1, <2>2
<1>6. /\ advert' \in [Services -> {"silent", "alive", "withdrawn"}]
      /\ lost' \subseteq Services
  BY <1>1, <1>3 DEF LifecycleType, Goodbye, mdns_goodbye
<1>7. main' \in [phase : Phases, step : Nat]
  BY <1>2, <1>3 DEF Goto, Phases
<1>8. srp' \in BOOLEAN /\ flags' \subseteq AllFlags
  BY <1>1, <1>3 DEF LifecycleType
<1>9. LifecycleType' /\ ThreadPlaces' /\ Ended' /\ StatusSettled' /\ started' = 0
  BY <1>1, <1>3, <1>4, <1>6, <1>7, <1>8
  DEF LifecycleType, ThreadPlaces, Releasing, Ended, StatusSettled
<1>10. srp' => main.step < 10
  <2>1. CASE main.step = 10
    BY <1>2, <1>3, <2>1
  <2>2. CASE main.step # 10
    <3>1. srp' = srp /\ (srp => main.step <= 10)
      BY <1>1, <1>2, <1>3, <2>2 DEF Releasing
    <3> QED BY <1>2, <2>2, <3>1
  <2> QED BY <2>1, <2>2
<1>11. main.step >= 13 => flags' = {}
  BY <1>1, <1>2, <1>3 DEF Releasing
<1>12. thread'["mdns"] # "unborn" =>
          /\ main.step < 13 => flags' = AllFlags
          /\ main.step >= 2 => "raop" \in lost' \/ advert'["raop"] = "withdrawn"
          /\ main.step >= 3 => "airplay" \in lost' \/ advert'["airplay"] = "withdrawn"
  <2> SUFFICES ASSUME thread["mdns"] # "unborn"
               PROVE  /\ main.step < 13 => flags' = AllFlags
                      /\ main.step >= 2 => "raop" \in lost' \/ advert'["raop"] = "withdrawn"
                      /\ main.step >= 3 => "airplay" \in lost' \/ advert'["airplay"] = "withdrawn"
    BY <1>3
  <2>1. /\ main.step <= 13 => flags = AllFlags
        /\ main.step > 2 => "raop" \in lost \/ advert["raop"] = "withdrawn"
        /\ main.step > 3 => "airplay" \in lost \/ advert["airplay"] = "withdrawn"
    BY <1>1 DEF Releasing
  <2>2. main.step < 13 => flags' = AllFlags
    BY <1>2, <1>3, <2>1
  <2>3. \A s \in Services : s \in lost \/ advert[s] = "withdrawn"
                               => s \in lost' \/ advert'[s] = "withdrawn"
    BY <1>1, <1>3 DEF Goodbye, mdns_goodbye, LifecycleType
  <2>4. r \in Services /\ main.step <= 13 => r \in lost' \/ advert'[r] = "withdrawn"
    BY <1>1, <1>3, <2>1 DEF Goodbye, mdns_goodbye, LifecycleType, Guarded, AllFlags,
       RtspParts, PipelineParts, DiscoveryParts, Services
  <2> QED BY <1>2, <2>1, <2>2, <2>3, <2>4 DEF Services
<1>13. CASE main.step = 14
  <2>1. At("done")'
    BY <1>2, <1>3, <1>13 DEF Goto, At
  <2>2. \A q \in Resources : held'[q] = 0
    BY <1>5, <1>13 DEF ReleasedAt
  <2>3. Withdrawn'
    BY <1>12, <1>13 DEF Withdrawn, Services
  <2>4. Over'
    BY <1>9, <1>10, <1>11, <1>13, <2>2, <2>3 DEF Over
  <2> QED BY <1>9, <2>1, <2>4 DEF LifecycleInv, At, ServingPhases
<1>14. CASE main.step # 14
  <2>1. At("deinit")' /\ main'.step = main.step + 1
    BY <1>2, <1>3, <1>14 DEF Goto, At
  <2>2. ASSUME NEW q \in Resources \ {"device", "ptp"}, ReleasedAt(q) >= main.step + 1
        PROVE  held'[q] = 1 <=> Guarded(q)'
    <3>1. ReleasedAt(q) \in Nat
      BY DEF ReleasedAt
    <3>2. q # r /\ (held[q] = 1 <=> Guarded(q))
      BY <1>1, <1>2, <2>2, <3>1 DEF Releasing
    <3>3. held'[q] = 1 <=> Guarded(q)
      BY <1>4, <3>2
    <3>4. CASE main.step = 13
      <4>1. q = "net"
        BY <2>2, <3>4 DEF ReleasedAt
      <4> QED BY <3>3, <4>1 DEF Guarded, RtspParts, PipelineParts, DiscoveryParts, Services
    <3>5. CASE main.step # 13
      BY <1>2, <1>3, <3>3, <3>5 DEF Guarded
    <3> QED BY <3>4, <3>5
  <2>3. Releasing'
    BY <1>2, <1>5, <1>9, <1>10, <1>11, <1>12, <1>14, <2>1, <2>2 DEF Releasing
  <2> QED BY <1>9, <2>1, <2>3 DEF LifecycleInv, At, ServingPhases
<1> QED BY <1>13, <1>14

----------------------------------------------------------------------------
(* A thread runs only while the program serves.                            *)
LEMMA RunsWhileServing ==
    ASSUME LifecycleInv, NEW t \in Threads, Running(t)
    PROVE  main.phase \in ServingPhases /\ Serving /\ LifecycleType /\ ThreadPlaces
<1>1. ~At("init") /\ ~At("deinit") /\ ~At("done")
  BY DEF LifecycleInv, Running, Starting, Releasing, Over, Ended
<1>2. main.phase \in Phases
  BY DEF LifecycleInv, LifecycleType
<1> QED BY <1>1, <1>2 DEF At, Phases, ServingPhases, LifecycleInv

(* What a step of a thread may do to the state: only the audio thread      *)
(* touches the PTP sockets and the device.                                 *)
LEMMA ThreadStepInv ==
    ASSUME LifecycleInv, NEW t \in Threads, Running(t),
           NEW place \in Places \ {"unborn"},
           thread' = [thread EXCEPT ![t] = place],
           ThreadPlaces',
           UNCHANGED <<program, flags, main, started, status, lost>>,
           held' \in [Resources -> {0, 1}],
           \A r \in Resources \ {"ptp", "device"} : held'[r] = held[r],
           held'["ptp"] = 1 => thread'["audio"] # "unborn",
           held'["device"] = 1 => thread'["audio"] \notin {"unborn", "return", "exited"},
           stopping' \in BOOLEAN, result' \in {0, -1}, failed' \in BOOLEAN,
           result' = 0 <=> ~failed',
           srp' \in BOOLEAN, srp' => thread["rtsp"] # "unborn",
           advert' \in [Services -> {"silent", "alive", "withdrawn"}]
    PROVE  LifecycleInv'
<1>1. main.phase \in ServingPhases /\ Serving /\ LifecycleType
  BY RunsWhileServing
<1>2. thread' \in [Threads -> Places]
  BY <1>1 DEF LifecycleType
<1>3. LifecycleType'
  BY <1>1, <1>2 DEF LifecycleType
<1>4. \A r \in Resources : Rank(r)' = Rank(r)
  BY DEF Rank
<1>5. \A u \in Threads : /\ thread'[u] = "unborn" <=> thread[u] = "unborn"
                         /\ u # t => thread'[u] = thread[u]
  BY <1>1 DEF LifecycleType, Running
<1>6. \A u \in Threads : NotRunning(u) => NotRunning(u)'
  <2>1. ~NotRunning(t)
    BY DEF NotRunning, Running
  <2> QED BY <1>5, <2>1 DEF NotRunning, At
<1>7. {"mdns", "rtsp", "audio"} \subseteq Threads
  BY DEF Threads
<1>8. Serving'
  BY <1>1, <1>4, <1>5, <1>6, <1>7 DEF Serving, At
<1> QED BY <1>1, <1>3, <1>8 DEF LifecycleInv, At, ServingPhases

(* The loop of the service threads.                                        *)
LEMMA ThreadLoopInv ==
    ASSUME LifecycleInv, NEW t \in Threads, ThreadLoop(t)
    PROVE  LifecycleInv'
<1>1. Running(t)
  BY DEF ThreadLoop, ThreadCheck, ThreadPoll, ThreadPollFails, ThreadReturns, Running
<1>2. Serving /\ LifecycleType /\ ThreadPlaces
  BY <1>1, RunsWhileServing
<1>3. UNCHANGED <<program, starts, held, flags, main, started, status, lost, srp, advert>>
  BY DEF ThreadLoop, ThreadCheck, ThreadPoll, ThreadPollFails, ThreadReturns, mainVars,
         discoveryVars, net_udp_recv
<1>4. PICK place \in {"check", "poll", "return", "exited", "leave"} :
         /\ thread' = [thread EXCEPT ![t] = place]
         /\ place = "leave" => t = "audio"
         /\ place \in {"return", "exited"} => t # "audio" \/ thread[t] = "return"
  BY DEF ThreadLoop, ThreadCheck, ThreadPoll, ThreadPollFails, ThreadReturns, ThreadGoes
<1>5. /\ stopping' \in BOOLEAN /\ result' \in {0, -1} /\ failed' \in BOOLEAN
      /\ result' = 0 <=> ~failed'
  <2>1. CASE ThreadPollFails(t)
    BY <2>1 DEF ThreadPollFails, server_fail
  <2>2. CASE ~ThreadPollFails(t)
    <3>1. UNCHANGED <<stopping, result, failed>>
      BY <2>2 DEF ThreadLoop, ThreadCheck, ThreadPoll, ThreadReturns
    <3> QED BY <1>2, <3>1 DEF LifecycleType, Serving
  <2> QED BY <2>1, <2>2
<1>6. thread \in [Threads -> Places] /\ "audio" \in Threads /\ "rtsp" \in Threads
  BY <1>2 DEF LifecycleType, Threads
<1>7. ThreadPlaces'
  BY <1>2, <1>4, <1>6 DEF ThreadPlaces, Threads
<1>8. /\ held'["ptp"] = 1 => thread'["audio"] # "unborn"
      /\ held'["device"] = 1 => thread'["audio"] \notin {"unborn", "return", "exited"}
  BY <1>2, <1>3, <1>4, <1>6 DEF Serving
<1>9. place \in Places \ {"unborn"}
  BY DEF Places
<1>10. /\ held' \in [Resources -> {0, 1}] /\ srp' \in BOOLEAN
       /\ advert' \in [Services -> {"silent", "alive", "withdrawn"}]
       /\ srp' => thread["rtsp"] # "unborn"
  BY <1>2, <1>3 DEF LifecycleType, Serving
<1> QED BY <1>1, <1>3, <1>4, <1>5, <1>7, <1>8, <1>9, <1>10, ThreadStepInv

(* airplay_discovery_poll works on a packet.                               *)
LEMMA DiscoveryPollInv ==
    ASSUME LifecycleInv, airplay_discovery_poll
    PROVE  LifecycleInv'
<1>1. "mdns" \in Threads /\ Running("mdns") /\ "raop" \in Services /\ "airplay" \in Services
  BY DEF airplay_discovery_poll, ReceivePacket, HandlePacket, HandleFails, Running, Threads,
         Services
<1>2. Serving /\ LifecycleType /\ ThreadPlaces
  BY <1>1, RunsWhileServing
<1>3. UNCHANGED <<program, starts, held, flags, main, started, status, lost, srp>>
  BY DEF airplay_discovery_poll, ReceivePacket, HandlePacket, HandleFails, mainVars
<1>4. PICK place \in {"check", "raop", "airplay"} :
         thread' = [thread EXCEPT !["mdns"] = place]
  BY DEF airplay_discovery_poll, ReceivePacket, HandlePacket, HandleFails, ThreadGoes
<1>5. advert' \in [Services -> {"silent", "alive", "withdrawn"}]
  BY <1>2 DEF airplay_discovery_poll, ReceivePacket, HandlePacket, HandleFails, LifecycleType,
     net_udp_recv, HandleQuietly, send_response, SendFails, mdns_announce, discoveryVars
<1>6. /\ stopping' \in BOOLEAN /\ result' \in {0, -1} /\ failed' \in BOOLEAN
      /\ result' = 0 <=> ~failed'
  <2>1. CASE server_fail
    BY <2>1 DEF server_fail
  <2>2. CASE UNCHANGED <<stopping, result, failed>>
    BY <1>2, <2>2 DEF LifecycleType, Serving
  <2> QED BY <2>1, <2>2 DEF airplay_discovery_poll, ReceivePacket, HandlePacket, HandleFails
<1>7. ThreadPlaces' /\ thread'["audio"] = thread["audio"]
  BY <1>2, <1>4 DEF ThreadPlaces, LifecycleType, Threads
<1>8. /\ held'["ptp"] = 1 => thread'["audio"] # "unborn"
      /\ held'["device"] = 1 => thread'["audio"] \notin {"unborn", "return", "exited"}
  BY <1>2, <1>3, <1>7 DEF Serving
<1>9. place \in Places \ {"unborn"}
  BY DEF Places
<1>10. /\ held' \in [Resources -> {0, 1}] /\ srp' \in BOOLEAN
       /\ srp' => thread["rtsp"] # "unborn"
  BY <1>2, <1>3 DEF LifecycleType, Serving
<1> QED BY <1>1, <1>3, <1>4, <1>5, <1>6, <1>7, <1>8, <1>9, <1>10, ThreadStepInv

(* A pairing begins or ends in the RTSP thread.                            *)
LEMMA PairingInv ==
    ASSUME LifecycleInv, Pairing
    PROVE  LifecycleInv'
<1>1. "rtsp" \in Threads /\ Running("rtsp")
  BY DEF Pairing, Running, Threads
<1>2. Serving /\ LifecycleType /\ ThreadPlaces
  BY <1>1, RunsWhileServing
<1>3. /\ UNCHANGED <<program, starts, held, flags, main, started, status, lost, thread,
                     stopping, result, failed, advert>>
      /\ thread["rtsp"] = "poll" /\ srp' \in BOOLEAN
  BY <1>2 DEF Pairing, mainVars, discoveryVars, LifecycleType
<1>4. thread' = [thread EXCEPT !["rtsp"] = "poll"]
  BY <1>1, <1>2, <1>3 DEF LifecycleType
<1>5. ThreadPlaces'
  BY <1>2, <1>3 DEF ThreadPlaces
<1>6. /\ held' \in [Resources -> {0, 1}]
      /\ advert' \in [Services -> {"silent", "alive", "withdrawn"}]
      /\ held'["ptp"] = 1 => thread'["audio"] # "unborn"
      /\ held'["device"] = 1 => thread'["audio"] \notin {"unborn", "return", "exited"}
      /\ stopping' \in BOOLEAN /\ result' \in {0, -1} /\ failed' \in BOOLEAN
      /\ result' = 0 <=> ~failed'
  BY <1>2, <1>3 DEF LifecycleType, Serving
<1>7. "poll" \in Places \ {"unborn"}
  BY DEF Places
<1> QED BY <1>1, <1>3, <1>4, <1>5, <1>6, <1>7, ThreadStepInv

(* The audio thread opens and closes, fails and leaves.                    *)
LEMMA AudioMainInv ==
    ASSUME LifecycleInv, airplay_audio_main
    PROVE  LifecycleInv'
<1> USE DEF ptp_sync_open, OpenDevice, CloseDevice, Device
<1>1. "audio" \in Threads /\ Running("audio")
  BY DEF airplay_audio_main, StartFails, AudioLeave, Running, Threads
<1>2. Serving /\ LifecycleType /\ ThreadPlaces
  BY <1>1, RunsWhileServing
<1>3. UNCHANGED <<program, flags, main, started, status, lost, srp, advert>>
  BY DEF airplay_audio_main, StartFails, AudioLeave, discoveryVars
<1>4. held \in [Resources -> {0, 1}] /\ "ptp" \in Resources /\ "device" \in Resources
  BY <1>2 DEF LifecycleType, Resources
<1>5. PICK place \in {"poll", "leave", "return"} :
         /\ thread' = [thread EXCEPT !["audio"] = place]
         /\ held' \in [Resources -> {0, 1}]
         /\ \A r \in Resources \ {"ptp", "device"} : held'[r] = held[r]
         /\ held'["device"] = 1 => place # "return"
  <2>1. CASE ptp_sync_open \/ OpenDevice \/ CloseDevice
    <3>1. thread' = [thread EXCEPT !["audio"] = "poll"]
      BY <1>2, <2>1 DEF LifecycleType, Threads
    <3>2. held' \in [Resources -> {0, 1}]
      BY <1>4, <2>1 DEF Acquire, Release, ReleaseAll
    <3>3. \A r \in Resources \ {"ptp", "device"} : held'[r] = held[r]
      BY <1>4, <2>1 DEF Acquire, Release, ReleaseAll
    <3> QED BY <3>1, <3>2, <3>3
  <2>2. CASE StartFails \/ AudioLeave
    <3>1. {"device"} \in SUBSET Resources
      BY <1>4
    <3>2. ReleaseAll(Held({"device"}))
      BY <2>2 DEF StartFails, AudioLeave
    <3>3. /\ held' \in [Resources -> {0, 1}]
          /\ \A r \in Resources : held'[r] = IF r \in {"device"} THEN 0 ELSE held[r]
      BY <1>4, <3>1, <3>2, ReleasesHeld
    <3>4. \/ thread' = [thread EXCEPT !["audio"] = "leave"]
          \/ thread' = [thread EXCEPT !["audio"] = "return"]
      BY <2>2 DEF StartFails, AudioLeave, ThreadGoes
    <3> QED BY <1>4, <3>3, <3>4
  <2> QED BY <2>1, <2>2 DEF airplay_audio_main
<1>6. /\ stopping' \in BOOLEAN /\ result' \in {0, -1} /\ failed' \in BOOLEAN
      /\ result' = 0 <=> ~failed'
  <2>1. CASE server_fail
    BY <2>1 DEF server_fail
  <2>2. CASE UNCHANGED <<stopping, result, failed>>
    BY <1>2, <2>2 DEF LifecycleType, Serving
  <2> QED BY <2>1, <2>2 DEF airplay_audio_main, StartFails, AudioLeave
<1>7. thread'["audio"] = place /\ ThreadPlaces'
  BY <1>2, <1>5 DEF ThreadPlaces, LifecycleType, Threads
<1>8. place \in Places \ {"unborn"}
  BY DEF Places
<1>9. /\ held'["ptp"] = 1 => thread'["audio"] # "unborn"
      /\ held'["device"] = 1 => thread'["audio"] \notin {"unborn", "return", "exited"}
  BY <1>5, <1>7
<1>10. /\ srp' \in BOOLEAN /\ (srp' => thread["rtsp"] # "unborn")
       /\ advert' \in [Services -> {"silent", "alive", "withdrawn"}]
  BY <1>2, <1>3 DEF LifecycleType, Serving
<1> QED BY <1>1, <1>3, <1>5, <1>6, <1>7, <1>8, <1>9, <1>10, ThreadStepInv

----------------------------------------------------------------------------
(* A signal, and steps that change nothing.                                *)
LEMMA QuietInv ==
    ASSUME LifecycleInv,
           UNCHANGED <<program, held, flags, main, thread, started, stopping, result, status,
                       srp, lost, failed, advert>>
    PROVE  LifecycleInv'
<1>1. \A r \in Resources : Rank(r)' = Rank(r) /\ Guarded(r)' = Guarded(r)
  BY DEF Rank, Guarded
<1>2. Now' = Now
  BY DEF Now, Offset
<1>3. LifecycleType' /\ ThreadPlaces'
  BY DEF LifecycleInv, LifecycleType, ThreadPlaces
<1>4. At("init")' => Starting'
  BY <1>1, <1>2 DEF LifecycleInv, Starting, At
<1>5. main'.phase \in ServingPhases => Serving'
  BY <1>1 DEF LifecycleInv, Serving, NotRunning, At
<1>6. At("deinit")' => Releasing'
  BY <1>1 DEF LifecycleInv, Releasing, Ended, StatusSettled, At
<1>7. At("done")' => Over'
  BY DEF LifecycleInv, Over, Ended, StatusSettled, Withdrawn, At
<1> QED BY <1>3, <1>4, <1>5, <1>6, <1>7 DEF LifecycleInv

(* The embedded program starts again from where the last run ended.        *)
LEMMA RestartInv ==
    ASSUME LifecycleInv, airplay_platform_start
    PROVE  LifecycleInv'
<1>1. LifecycleType /\ Over
  BY DEF LifecycleInv, airplay_platform_start
<1>2. /\ program = "embedded" /\ program' = program
      /\ main' = [phase |-> "init", step |-> 1]
      /\ thread' = [t \in Threads |-> "unborn"]
      /\ status' = 1 /\ lost' = {} /\ failed' = FALSE
      /\ UNCHANGED <<held, flags, started, stopping, result, srp, advert>>
  BY DEF airplay_platform_start, Goto, discoveryVars
<1>3. LifecycleType'
  <2>1. main' \in [phase : Phases, step : Nat] /\ thread' \in [Threads -> Places]
    BY <1>2 DEF Phases, Places
  <2> QED BY <1>1, <1>2, <2>1 DEF LifecycleType
<1>4. Now' = 0
  BY <1>2 DEF Now, Offset
<1>5. main'.step \in 1..Len(InitSteps(program'))
  <2> DEFINE n == Len(InitSteps(program'))
  <2>1. n = 14
    BY <1>2, StepLists DEF InitSteps
  <2> HIDE DEF n
  <2>2. main'.step \in 1..n
    BY <1>2, <2>1
  <2> QED BY <2>2 DEF n
<1>6. \A r \in Resources : held'[r] = 0 /\ ~(Rank(r)' < 0)
  BY <1>1, <1>2 DEF Over, Rank, Never
<1>7. \A f \in AllFlags : f \notin flags' /\ ~(FlagRank(f) < 0)
  BY <1>1, <1>2 DEF Over, FlagRank
<1>8. Starting'
  BY <1>1, <1>2, <1>4, <1>5, <1>6, <1>7 DEF Starting, Over, FlagRank
<1>9. ThreadPlaces'
  BY <1>2 DEF ThreadPlaces, Threads
<1> QED BY <1>2, <1>3, <1>8, <1>9 DEF LifecycleInv, At, ServingPhases

(* Every step keeps the invariant.                                         *)
LEMMA NextLifecycle ==
    ASSUME LifecycleInv, [Next]_vars
    PROVE  LifecycleInv'
<1>1. CASE Main
  BY <1>1, InitStepInv, InitFailsInv, SpawnInv, StopInv, JoinInv, ResultInv, DeinitInv DEF Main
<1>2. CASE Signal \/ Finished \/ UNCHANGED vars
  BY <1>2, QuietInv DEF Signal, Finished, vars, mainVars, discoveryVars
<1>3. CASE airplay_platform_start
  BY <1>3, RestartInv
<1>4. ASSUME NEW t \in Threads, ThreadLoop(t)
      PROVE  LifecycleInv'
  BY <1>4, ThreadLoopInv
<1>5. CASE airplay_discovery_poll
  BY <1>5, DiscoveryPollInv
<1>6. CASE Pairing
  BY <1>6, PairingInv
<1>7. CASE airplay_audio_main
  BY <1>7, AudioMainInv
<1> QED BY <1>1, <1>2, <1>3, <1>4, <1>5, <1>6, <1>7 DEF Next

(* What is held and which threads run is accounted for at every step of    *)
(* every start, from wherever init, a thread start or a service failed.    *)
THEOREM LifecycleAccounted == Spec => []LifecycleInv
BY InitLifecycle, NextLifecycle, PTL DEF Spec

(* The account of the serving phases gives every thread what it needs.     *)
LEMMA InvSafe == LifecycleInv => NoUseAfterRelease
<1> SUFFICES ASSUME LifecycleInv PROVE NoUseAfterRelease
  OBVIOUS
<1>1. ASSUME NEW t \in Threads, Running(t)
      PROVE  /\ \A r \in Needs(t) : held[r] = 1
             /\ program = "embedded" => held["event_group"] = 1
  <2>1. Serving /\ program \in Programs
    BY <1>1, RunsWhileServing DEF LifecycleType
  <2>2. \A r \in Needs(t) : r \in Resources \ {"ptp", "device"} /\ Rank(r) < Never
    BY DEF Needs, Resources, RtspParts, PipelineParts, DiscoveryParts, Rank, Never, Threads
  <2>3. "event_group" \in Resources /\ (program = "embedded" => Rank("event_group") < Never)
    BY DEF Resources, Rank, Never
  <2> QED BY <2>1, <2>2, <2>3 DEF Serving
<1>2. srp => held["crypto"] = 1
  <2> SUFFICES ASSUME srp PROVE held["crypto"] = 1
    OBVIOUS
  <2>1. "crypto" \in Resources /\ Rank("crypto") < Never /\ ReleasedAt("crypto") = 13
    BY DEF Resources, Rank, Never, ReleasedAt
  <2>2. Guarded("crypto")
    BY DEF Guarded, RtspParts, PipelineParts, DiscoveryParts, Services
  <2>3. main.phase \in ServingPhases \/ At("deinit")
    BY DEF LifecycleInv, LifecycleType, Phases, ServingPhases, At, Starting, Over
  <2>4. CASE main.phase \in ServingPhases
    BY <2>1, <2>4 DEF LifecycleInv, Serving
  <2>5. CASE At("deinit")
    BY <2>1, <2>2, <2>5 DEF LifecycleInv, Releasing
  <2> QED BY <2>3, <2>4, <2>5
<1> QED BY <1>1, <1>2 DEF NoUseAfterRelease

(* The account of the end gives the three claims about it.                 *)
LEMMA InvClean == LifecycleInv => NoLeak /\ StatusTruthful /\ Withdrawn
<1> SUFFICES ASSUME LifecycleInv PROVE NoLeak /\ StatusTruthful /\ Withdrawn
  OBVIOUS
<1>1. \A r \in Resources : held[r] \in {0, 1}
  BY DEF LifecycleInv, LifecycleType
<1>2. At("done") => Over
  BY DEF LifecycleInv
<1>3. NoLeak
  BY <1>1, <1>2 DEF NoLeak, Over, Held
<1> QED BY <1>2, <1>3 DEF StatusTruthful, StatusSettled, Over, Withdrawn

(* No thread ever runs on a lock, socket, pool or event group that main    *)
(* has not acquired or has already released, however init, the threads and *)
(* the shutdown of server.c and the programs interleave.                   *)
THEOREM NothingUsedAfterRelease == Spec => []NoUseAfterRelease
BY LifecycleAccounted, InvSafe, PTL

(* Nothing is acquired or released twice and every end of the program      *)
(* finds everything released, at every start, whichever step failed.       *)
THEOREM NothingLeaks == Spec => []NoLeak
BY LifecycleAccounted, InvClean, PTL

(* The exit status of the program, and what airplay_platform_stop returns, *)
(* is 0 exactly after a run in which everything started and no service     *)
(* failed.                                                                 *)
THEOREM StatusIsTruthful == Spec => []StatusTruthful
BY LifecycleAccounted, InvClean, PTL

(* A receiver that served and ended has withdrawn both services, unless    *)
(* the network refused the goodbye.                                        *)
THEOREM ServicesWithdrawn == Spec => []Withdrawn
BY LifecycleAccounted, InvClean, PTL

----------------------------------------------------------------------------
(* The answers to the neighbours.                                          *)

(* A set of numbers has a least one.                                      *)
LEMMA LeastNumber ==
    ASSUME NEW T, T \subseteq Nat, T # {}
    PROVE  \E n \in T : \A m \in T : n <= m
<1> DEFINE less == {ss \in Nat \X Nat : ss[1] < ss[2]}
<1>1. IsWellFoundedOn(less, Nat)
  BY NatLessThanWellFounded DEF OpToRel
<1>2. \A m, n \in Nat : m < n => <<m, n>> \in less
  OBVIOUS
<1> HIDE DEF less
<1>3. PICK n \in T : \A m \in T : ~(<<m, n>> \in less)
  BY <1>1, WFMin
<1>4. \A m \in T : ~(m < n)
  BY <1>2, <1>3, Zenon
<1>5. \A m \in T : n <= m
  BY <1>4
<1> QED BY <1>5

(* A question that the service answers, and one behind which it does not   *)
(* look: the first it answers, or one that cannot be read.                 *)
Asks(s, q) == q.name \in {s, "host"} /\ q.served

Stops(s, q) == q.name = "bad" \/ Asks(s, q)

(* What the loop finds from question i on, said without the loop.          *)
AskedFrom(s, p, i) ==
    {k \in i..Len(p.questions) :
        Asks(s, p.questions[k]) /\ \A j \in i..(k - 1) : ~Stops(s, p.questions[j])}

AnswerFrom(s, p, i) ==
    IF AskedFrom(s, p, i) = {} THEN "none"
    ELSE IF \E k \in AskedFrom(s, p, i) : p.questions[k].qu THEN "unicast" ELSE "multicast"

(* One round of the loop of mdns_handle_packet_from.                       *)
LEMMA AnswerRound ==
    ASSUME NEW s \in Services, NEW p, p.questions \in Seq(Question),
           NEW i \in 1..(Len(p.questions) + 1)
    PROVE  AnswerFrom(s, p, i) =
             IF i > Len(p.questions) THEN "none"
             ELSE CASE p.questions[i].name = "bad" -> "none"
                    [] p.questions[i].name # "bad" /\ name_matches(s, p.questions[i])
                          /\ p.questions[i].served ->
                         IF p.questions[i].qu THEN "unicast" ELSE "multicast"
                    [] OTHER -> AnswerFrom(s, p, i + 1)
<1> DEFINE n == Len(p.questions)
           q == p.questions[i]
<1>1. n \in Nat /\ i \in Nat /\ i <= n + 1
  OBVIOUS
<1>2. CASE i > n
  <2>1. i..n = {}
    BY <1>1, <1>2
  <2>2. AskedFrom(s, p, i) = {}
    BY <2>1 DEF AskedFrom
  <2> QED BY <1>2, <2>2 DEF AnswerFrom
<1>3. CASE i <= n /\ q.name = "bad"
  <2>1. AskedFrom(s, p, i) = {}
    <3> SUFFICES ASSUME NEW k \in i..n, Asks(s, p.questions[k]),
                        \A j \in i..(k - 1) : ~Stops(s, p.questions[j])
                 PROVE  FALSE
      BY DEF AskedFrom
    <3>1. k = i \/ i \in i..(k - 1)
      BY <1>1
    <3>2. ~Asks(s, q)
      BY <1>3 DEF Asks, Services
    <3> QED BY <1>3, <3>1, <3>2 DEF Stops
  <2>2. ~(i > n)
    BY <1>1, <1>3
  <2> QED BY <1>3, <2>1, <2>2 DEF AnswerFrom
<1>4. CASE i <= n /\ Asks(s, q)
  <2>1. AskedFrom(s, p, i) = {i}
    <3>1. ASSUME NEW k \in AskedFrom(s, p, i)
          PROVE  k = i
      <4>1. k \in i..n /\ \A j \in i..(k - 1) : ~Stops(s, p.questions[j])
        BY DEF AskedFrom
      <4>2. k = i \/ i \in i..(k - 1)
        BY <1>1, <4>1
      <4> QED BY <1>4, <4>1, <4>2 DEF Stops
    <3>2. i \in i..n /\ \A j \in i..(i - 1) : FALSE
      BY <1>1, <1>4
    <3>3. i \in AskedFrom(s, p, i)
      BY <1>4, <3>2 DEF AskedFrom
    <3> QED BY <3>1, <3>3
  <2>2. ~(i > n) /\ q.name # "bad" /\ name_matches(s, q) /\ q.served
    BY <1>1, <1>4 DEF Asks, name_matches, Services
  <2> QED BY <2>1, <2>2 DEF AnswerFrom
<1>5. CASE i <= n /\ ~Stops(s, q)
  <2>1. AskedFrom(s, p, i) = AskedFrom(s, p, i + 1)
    <3>1. ASSUME NEW k \in AskedFrom(s, p, i)
          PROVE  k \in AskedFrom(s, p, i + 1)
      <4>1. /\ k \in i..n /\ Asks(s, p.questions[k])
            /\ \A j \in i..(k - 1) : ~Stops(s, p.questions[j])
        BY <3>1 DEF AskedFrom
      <4>2. k # i
        BY <1>5, <4>1 DEF Stops
      <4>3. k \in (i + 1)..n /\ (i + 1)..(k - 1) \subseteq i..(k - 1)
        BY <1>1, <4>1, <4>2
      <4> QED BY <4>1, <4>3 DEF AskedFrom
    <3>2. ASSUME NEW k \in AskedFrom(s, p, i + 1)
          PROVE  k \in AskedFrom(s, p, i)
      <4>1. /\ k \in (i + 1)..n /\ Asks(s, p.questions[k])
            /\ \A j \in (i + 1)..(k - 1) : ~Stops(s, p.questions[j])
        BY <3>2 DEF AskedFrom
      <4>2. k \in i..n /\ \A j \in i..(k - 1) : j = i \/ j \in (i + 1)..(k - 1)
        BY <1>1, <4>1
      <4>3. \A j \in i..(k - 1) : ~Stops(s, p.questions[j])
        BY <1>5, <4>1, <4>2
      <4> QED BY <4>1, <4>2, <4>3 DEF AskedFrom
    <3> QED BY <3>1, <3>2
  <2>2. ~(i > n) /\ q.name # "bad" /\ ~(name_matches(s, q) /\ q.served)
    BY <1>1, <1>5 DEF Stops, Asks, name_matches
  <2> QED BY <2>1, <2>2 DEF AnswerFrom
<1> QED BY <1>1, <1>2, <1>3, <1>4, <1>5 DEF Stops

(* The loop is a recursive function: AnswerFrom is one that does its       *)
(* rounds, and any two that do are equal, from the last question down.     *)
LEMMA LoopAnswers ==
    ASSUME NEW s \in Services, NEW p, p.questions \in Seq(Question), ~p.response
    PROVE  mdns_handle_packet_from(s, p) = AnswerFrom(s, p, 1)
<1> DEFINE n == Len(p.questions)
           Body(f, i) ==
             IF i > n THEN "none"
             ELSE LET q == p.questions[i] IN
                  CASE q.name = "bad" -> "none"
                    [] q.name # "bad" /\ name_matches(s, q) /\ q.served ->
                         IF q.qu THEN "unicast" ELSE "multicast"
                    [] OTHER -> f[i + 1]
           g == [i \in 1..(n + 1) |-> AnswerFrom(s, p, i)]
           from == CHOOSE f : f = [i \in 1..(n + 1) |-> Body(f, i)]
<1>1. n \in Nat
  OBVIOUS
<1>2. \A i \in 1..(n + 1) : g[i] = Body(g, i)
  <2> SUFFICES ASSUME NEW i \in 1..(n + 1) PROVE AnswerFrom(s, p, i) = Body(g, i)
    OBVIOUS
  <2>1. ~(i > n) => g[i + 1] = AnswerFrom(s, p, i + 1)
    BY <1>1
  <2> QED BY <2>1, AnswerRound
<1>3. g = [i \in 1..(n + 1) |-> Body(g, i)]
  BY <1>2
<1>4. from = [i \in 1..(n + 1) |-> Body(from, i)]
  BY <1>3
<1>5. \A i \in 1..(n + 1) : from[i] = Body(from, i)
  BY <1>4
<1> HIDE DEF from, g
<1> DEFINE T == {d \in 0..n : from[n + 1 - d] # g[n + 1 - d]}
<1>6. ASSUME T # {} PROVE FALSE
  <2>1. T \subseteq Nat
    BY <1>1
  <2>2. PICK d \in T : \A m \in T : d <= m
    BY <1>6, <2>1, LeastNumber
  <2>3. d \in Nat /\ d <= n /\ from[n + 1 - d] # g[n + 1 - d]
    BY <1>1, <2>2
  <2>4. PICK i \in 1..(n + 1) : i = n + 1 - d
    BY <1>1, <2>3
  <2>5. i <= n => from[i + 1] = g[i + 1]
    <3> SUFFICES ASSUME i <= n PROVE from[i + 1] = g[i + 1]
      OBVIOUS
    <3>1. d - 1 \in 0..n /\ ~(d <= d - 1) /\ n + 1 - (d - 1) = i + 1
      BY <1>1, <2>3, <2>4
    <3> QED BY <2>2, <3>1
  <2>6. Body(from, i) = Body(g, i)
    BY <1>1, <2>5
  <2> QED BY <1>2, <1>5, <2>3, <2>4, <2>6
<1>7. from[1] = g[1]
  <2>1. n \in 0..n /\ n + 1 - n = 1
    BY <1>1
  <2> QED BY <1>6, <2>1
<1>8. g[1] = AnswerFrom(s, p, 1)
  BY <1>1 DEF g
<1>9. mdns_handle_packet_from(s, p) = from[1]
  BY Zenon DEF mdns_handle_packet_from, from
<1> QED BY <1>7, <1>8, <1>9

(* FirstAsked, of the property, is what is asked from the first question.  *)
LEMMA HandlesAsExpected ==
    ASSUME NEW s \in Services, NEW p, p.questions \in Seq(Question), p.response \in BOOLEAN
    PROVE  mdns_handle_packet_from(s, p) = Expected(s, p)
<1>1. CASE p.response
  <2> DEFINE loop == (CHOOSE f : f = [i \in 1..(Len(p.questions) + 1) |->
                         IF i > Len(p.questions) THEN "none"
                         ELSE LET q == p.questions[i] IN
                              CASE q.name = "bad" -> "none"
                                [] q.name # "bad" /\ name_matches(s, q) /\ q.served ->
                                     IF q.qu THEN "unicast" ELSE "multicast"
                                [] OTHER -> f[i + 1]])[1]
  <2>1. mdns_handle_packet_from(s, p) = IF p.response THEN "none" ELSE loop
    BY Zenon DEF mdns_handle_packet_from
  <2> HIDE DEF loop
  <2> QED BY <1>1, <2>1 DEF Expected
<1>2. CASE ~p.response
  <2>1. \A k \in DOMAIN p.questions : 1..(k - 1) \subseteq DOMAIN p.questions
    OBVIOUS
  <2>2. DOMAIN p.questions = 1..Len(p.questions)
    OBVIOUS
  <2>3. \A q \in Question : /\ q.served \in BOOLEAN
                            /\ ~Stops(s, q) <=>
                                 q.name # "bad" /\ (q.name \in {s, "host"} => ~q.served)
    BY DEF Stops, Asks, Question
  <2>4. \A k \in DOMAIN p.questions : p.questions[k] \in Question
    OBVIOUS
  <2>5. FirstAsked(s, p) = AskedFrom(s, p, 1)
    BY <2>1, <2>2, <2>3, <2>4 DEF FirstAsked, AskedFrom, Asks
  <2> QED BY <1>2, <2>5, LoopAnswers DEF Expected, AnswerFrom
<1> QED BY <1>1, <1>2

(* What is known of the packet and of the answers while the mDNS thread is *)
(* at each place of its poll: the services take their turns in order, and  *)
(* nothing is left of a packet when the thread waits for the next or ends. *)
AnsweredInv ==
    /\ packet \in Packets \cup {NoPacket}
    /\ answers \in [Services -> {"none", "unicast", "multicast"}]
    /\ thread["mdns"] \notin {"check", "airplay"} => answers = NoAnswers
    /\ thread["mdns"] \notin {"check", "raop", "airplay"} => packet = NoPacket
    /\ thread["mdns"] = "airplay" =>
          answers["airplay"] = "none" /\ answers["raop"] = Expected("raop", packet)
    /\ thread["mdns"] = "check" /\ result = 0 =>
          \A s \in Services : answers[s] = Expected(s, packet)

(* Nobody asks anything before the first packet.                           *)
LEMMA NothingExpected ==
    \A s \in Services : Expected(s, NoPacket) = "none" /\ NoAnswers[s] = "none"
BY DEF Expected, NoPacket, NoAnswers

(* The fields of a packet.                                                 *)
LEMMA PacketFields ==
    ASSUME NEW p \in Packets \cup {NoPacket}
    PROVE  p.questions \in Seq(Question) /\ p.response \in BOOLEAN
<1>1. CASE p \in Packets
  BY <1>1, PacketsAssumption
<1>2. CASE p = NoPacket
  <2>1. p.response = TRUE /\ p.questions = <<>>
    BY <1>2 DEF NoPacket
  <2>2. <<>> \in Seq(Question)
    OBVIOUS
  <2> QED BY <2>1, <2>2
<1> QED BY <1>1, <1>2

(* The receiver starts without a packet.                                   *)
LEMMA AnswersStart == Init => AnsweredInv
<1> SUFFICES ASSUME Init PROVE AnsweredInv
  OBVIOUS
<1>1. thread["mdns"] = "unborn" /\ packet = NoPacket /\ answers = NoAnswers
  BY DEF Init, DiscoveryInit, Threads
<1> QED BY <1>1 DEF AnsweredInv, NoAnswers

(* A step that leaves the mDNS thread and the packet alone.                *)
LEMMA AnswersUndisturbed ==
    ASSUME AnsweredInv, UNCHANGED <<packet, answers>>, thread'["mdns"] = thread["mdns"],
           result' = result \/ result' = -1 \/ thread["mdns"] = "unborn"
    PROVE  AnsweredInv'
<1>1. \A s \in Services : Expected(s, packet)' = Expected(s, packet)
  BY DEF Expected, FirstAsked
<1>2. thread["mdns"] = "check" /\ result' = 0 => result = 0
  OBVIOUS
<1> QED BY <1>1, <1>2 DEF AnsweredInv, Services

(* What main does: it creates the thread, and it clears the result before. *)
LEMMA MainAnswers ==
    ASSUME LifecycleInv, AnsweredInv, Main
    PROVE  AnsweredInv'
<1>1. UNCHANGED <<packet, answers>>
  BY DEF Main, InitStep, InitFails, SpawnThread, SpawnFails, WaitEnds, airplay_server_stop,
     JoinThread, airplay_server_result, DeinitStep, discoveryVars
<1>2. CASE SpawnThread
  <2>1. thread \in [Threads -> Places] /\ "mdns" \in Threads /\ Serving /\ At("spawn")
    BY <1>2 DEF LifecycleInv, LifecycleType, Threads, SpawnThread, At, ServingPhases
  <2>2. main.step \in 1..3 /\ started = main.step - 1
    BY <2>1 DEF Serving
  <2>3. thread' = [thread EXCEPT ![Entries[main.step]] = "check"] /\ result' = result
    BY <1>2 DEF SpawnThread
  <2>4. CASE main.step = 1
    <3>1. thread["mdns"] = "unborn" /\ thread'["mdns"] = "check"
      BY <2>1, <2>2, <2>3, <2>4 DEF Serving, NotRunning, At, Entries
    <3>2. packet' = NoPacket /\ answers' = NoAnswers
      BY <1>1, <3>1 DEF AnsweredInv
    <3>3. \A s \in Services : answers'[s] = Expected(s, packet')
      BY <3>2, NothingExpected
    <3> QED BY <1>1, <3>1, <3>2, <3>3 DEF AnsweredInv, Expected
  <2>5. CASE main.step # 1
    <3>1. thread'["mdns"] = thread["mdns"]
      BY <2>1, <2>2, <2>3, <2>5, ThreeEntries DEF Entries
    <3> QED BY <1>1, <2>3, <3>1, AnswersUndisturbed
  <2> QED BY <2>4, <2>5
<1>3. CASE InitStep \/ InitFails
  <2>1. thread["mdns"] = "unborn" /\ thread' = thread
    BY <1>3 DEF LifecycleInv, Starting, InitStep, InitFails, Threads
  <2> QED BY <1>1, <2>1, AnswersUndisturbed
<1>4. CASE \/ SpawnFails \/ WaitEnds \/ airplay_server_stop \/ JoinThread
           \/ airplay_server_result \/ DeinitStep
  <2>1. UNCHANGED <<thread, result>>
    BY <1>4 DEF SpawnFails, WaitEnds, airplay_server_stop, JoinThread, airplay_server_result,
       DeinitStep
  <2> QED BY <1>1, <2>1, AnswersUndisturbed
<1> QED BY <1>2, <1>3, <1>4 DEF Main

(* The thread tests the flag between two polls and forgets the packet.     *)
LEMMA LoopKeepsAnswers ==
    ASSUME LifecycleInv, AnsweredInv, NEW t \in Threads, ThreadLoop(t)
    PROVE  AnsweredInv'
<1>1. thread \in [Threads -> Places] /\ "mdns" \in Threads
  BY DEF LifecycleInv, LifecycleType, Threads
<1>2. PICK place \in {"check", "poll", "return", "exited", "leave"} :
         thread' = [thread EXCEPT ![t] = place]
  BY DEF ThreadLoop, ThreadCheck, ThreadPoll, ThreadPollFails, ThreadReturns, ThreadGoes
<1>3. result' = result \/ result' = -1
  BY DEF ThreadLoop, ThreadCheck, ThreadPoll, ThreadPollFails, ThreadReturns, server_fail
<1>4. CASE t # "mdns"
  <2>1. UNCHANGED <<packet, answers>>
    BY <1>4 DEF ThreadLoop, ThreadCheck, ThreadPoll, ThreadPollFails, ThreadReturns,
       discoveryVars
  <2>2. thread'["mdns"] = thread["mdns"]
    BY <1>1, <1>2, <1>4
  <2> QED BY <1>3, <2>1, <2>2, AnswersUndisturbed
<1>5. CASE t = "mdns"
  <2>1. packet' = NoPacket /\ answers' = NoAnswers
    <3>1. CASE ThreadCheck("mdns")
      BY <3>1 DEF ThreadCheck, net_udp_recv
    <3>2. CASE ThreadPoll("mdns") \/ ThreadPollFails("mdns") \/ ThreadReturns("mdns")
      BY <3>2 DEF ThreadPoll, ThreadPollFails, ThreadReturns, discoveryVars, AnsweredInv
    <3> QED BY <1>5, <3>1, <3>2 DEF ThreadLoop
  <2>2. thread'["mdns"] = place
    BY <1>1, <1>2, <1>5
  <2>3. \A s \in Services : answers'[s] = Expected(s, packet')
    BY <2>1, NothingExpected
  <2>4. Services' = Services
    BY DEF Services
  <2>5. answers' \in [Services -> {"none", "unicast", "multicast"}]
    BY <2>1 DEF NoAnswers
  <2> QED BY <2>1, <2>2, <2>3, <2>5 DEF AnsweredInv, Expected, FirstAsked
<1> QED BY <1>4, <1>5

(* A packet is received, and each service has its turn.                    *)
LEMMA PollAnswers ==
    ASSUME LifecycleInv, AnsweredInv, airplay_discovery_poll
    PROVE  AnsweredInv'
<1>1. thread \in [Threads -> Places] /\ "mdns" \in Threads
  BY DEF LifecycleInv, LifecycleType, Threads
<1>2. CASE ReceivePacket
  <2>1. thread'["mdns"] = "raop" /\ answers' = NoAnswers /\ packet' \in Packets
    BY <1>1, <1>2 DEF ReceivePacket, net_udp_recv, ThreadGoes
  <2>2. answers' \in [Services -> {"none", "unicast", "multicast"}]
    BY <2>1 DEF NoAnswers
  <2> QED BY <2>1, <2>2 DEF AnsweredInv
<1>3. ASSUME NEW s \in Services, HandleFails(s)
      PROVE  AnsweredInv'
  <2>1. thread'["mdns"] = "check" /\ result' = -1 /\ UNCHANGED <<packet, answers>>
    BY <1>1, <1>3 DEF HandleFails, SendFails, server_fail, ThreadGoes, discoveryVars
  <2> QED BY <2>1 DEF AnsweredInv
<1>4. ASSUME NEW s \in Services, HandlePacket(s)
      PROVE  AnsweredInv'
  <2> DEFINE answer == mdns_handle_packet_from(s, packet)
  <2>1. /\ thread["mdns"] = s /\ packet' = packet /\ result' = result
        /\ thread'["mdns"] = IF s = "raop" THEN "airplay" ELSE "check"
    BY <1>1, <1>4 DEF HandlePacket, HandleQuietly, send_response, mdns_announce, ThreadGoes,
       discoveryVars
  <2>2. /\ answers \in [Services -> {"none", "unicast", "multicast"}]
        /\ packet \in Packets \cup {NoPacket} /\ "raop" \in Services /\ "airplay" \in Services
    BY DEF AnsweredInv, Services
  <2>3. answer = Expected(s, packet) /\ Expected(s, packet) \in {"none", "unicast", "multicast"}
    BY <2>2, PacketFields, HandlesAsExpected DEF Expected
  <2>4. answers[s] = "none"
    BY <2>1, <2>2, NothingExpected DEF AnsweredInv, Services
  <2>5. answers' = [answers EXCEPT ![s] = Expected(s, packet)]
    <3>1. CASE HandleQuietly(s)
      BY <2>2, <2>3, <2>4, <3>1 DEF HandleQuietly, discoveryVars
    <3>2. CASE send_response(s)
      BY <2>3, <3>2 DEF send_response
    <3> QED BY <1>4, <3>1, <3>2 DEF HandlePacket
  <2>6. \A u \in Services : Expected(u, packet)' = Expected(u, packet)
    BY <2>1 DEF Expected, FirstAsked
  <2>7. answers' \in [Services -> {"none", "unicast", "multicast"}]
    BY <2>2, <2>3, <2>5
  <2>8. CASE s = "raop"
    <3>1. answers["airplay"] = "none"
      BY <2>1, <2>2, <2>8, NothingExpected DEF AnsweredInv
    <3> QED BY <2>1, <2>2, <2>5, <2>6, <2>7, <2>8, <3>1 DEF AnsweredInv
  <2>9. CASE s = "airplay"
    <3>1. \A u \in Services : answers'[u] = Expected(u, packet)
      BY <2>1, <2>2, <2>5, <2>9 DEF AnsweredInv, Services
    <3> QED BY <2>1, <2>2, <2>6, <2>7, <2>9, <3>1 DEF AnsweredInv
  <2> QED BY <2>8, <2>9 DEF Services
<1> QED BY <1>2, <1>3, <1>4 DEF airplay_discovery_poll

(* Every step keeps what is known of the answers.                          *)
LEMMA NextAnswers ==
    ASSUME LifecycleInv, AnsweredInv, [Next]_vars
    PROVE  AnsweredInv'
<1>1. CASE Main
  BY <1>1, MainAnswers
<1>2. CASE Signal \/ Finished \/ Pairing \/ UNCHANGED vars
  <2>1. UNCHANGED <<packet, answers, thread, result>>
    BY <1>2 DEF Signal, Finished, Pairing, vars, discoveryVars
  <2> QED BY <2>1, AnswersUndisturbed
<1>3. CASE airplay_platform_start
  <2>1. /\ thread["mdns"] \in {"unborn", "exited"} /\ thread'["mdns"] = "unborn"
        /\ UNCHANGED <<packet, answers, result>>
    BY <1>3 DEF airplay_platform_start, LifecycleInv, Over, Ended, Threads, discoveryVars
  <2> QED BY <2>1 DEF AnsweredInv
<1>4. ASSUME NEW t \in Threads, ThreadLoop(t)
      PROVE  AnsweredInv'
  BY <1>4, LoopKeepsAnswers
<1>5. CASE airplay_discovery_poll
  BY <1>5, PollAnswers
<1>6. CASE airplay_audio_main
  <2>1. thread \in [Threads -> Places]
    BY DEF LifecycleInv, LifecycleType
  <2>2. UNCHANGED <<packet, answers>> /\ (result' = result \/ result' = -1)
    BY <1>6 DEF airplay_audio_main, ptp_sync_open, OpenDevice, CloseDevice, Device, StartFails,
       AudioLeave, server_fail, discoveryVars
  <2>3. thread'["mdns"] = thread["mdns"]
    BY <1>6, <2>1 DEF airplay_audio_main, ptp_sync_open, OpenDevice, CloseDevice, Device,
       StartFails, AudioLeave, ThreadGoes, Threads
  <2> QED BY <2>2, <2>3, AnswersUndisturbed
<1> QED BY <1>1, <1>2, <1>3, <1>4, <1>5, <1>6 DEF Next

(* Every query of the neighbours is answered by exactly the services it    *)
(* asks for, by unicast exactly when the first question for the service    *)
(* wants that: mdns_handle_packet_from finds it in packets of any length,  *)
(* and airplay_discovery_poll gives both services their turn.              *)
THEOREM QueriesAreAnswered == Spec => []AskedAnswered
<1>1. AnsweredInv => AskedAnswered
  BY DEF AnsweredInv, AskedAnswered
<1>2. Spec => []AnsweredInv
  BY AnswersStart, NextAnswers, LifecycleAccounted, PTL DEF Spec
<1> QED BY <1>1, <1>2, PTL
=============================================================================
