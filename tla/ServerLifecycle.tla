-------------------------- MODULE ServerLifecycle --------------------------
(***************************************************************************)
(* Start, failure, shutdown and restart of the receiver:                   *)
(* airplay_server_init, airplay_server_deinit and the three service        *)
(* threads of shared/service/server.c under each program that runs them:   *)
(* main of platform/linux and platform/apple ("posix"), main of            *)
(* platform/windows, and platform/embedded/runtime.c, whose static server  *)
(* is started again after it was stopped.                                  *)
(***************************************************************************)
EXTENDS Discovery

CONSTANT MaxStarts   \* bound: how often the embedded program is started

ASSUME StartsAssumption == MaxStarts \in Nat \ {0}

Programs == {"posix", "windows", "embedded"}
Threads == {"mdns", "rtsp", "audio"}

(* The order in which the threads are created; they are joined backwards.  *)
Entries == <<"mdns", "rtsp", "audio">>

(* The parts one create function acquires, and releases if it fails.       *)
RtspParts == {"rtsp_lock", "rtsp_listener"}
PipelineParts == {"audio_socket", "control_socket", "timing_socket", "buffered_listener"}
DiscoveryParts == {"mdns_socket"}

(* "ptp" are the sockets of ptp_sync_open; "console" is the handler Windows *)
(* registers, "event_group" what the embedded tasks report to.             *)
Resources ==
    {"net", "crypto", "control_lock", "ptp", "device", "console", "event_group"}
        \cup RtspParts \cup PipelineParts \cup DiscoveryParts

(* The steps of airplay_server_init.  "identity" is rtsp_set_identity,     *)
(* "raop" and "airplay" are the announcements of the services.             *)
ServerSteps ==
    <<"crypto", "control_lock", "rtsp_lock", "rtsp_listener", "identity",
      "audio_socket", "control_socket", "timing_socket", "buffered_listener",
      "mdns_socket", "raop", "airplay">>

PosixSteps == <<"sigaction", "net">> \o ServerSteps
WindowsSteps == <<"net", "detect_identity">> \o ServerSteps \o <<"console">>
EmbeddedSteps == <<"net">> \o ServerSteps \o <<"event_group">>

InitSteps(p) ==
    CASE p = "posix" -> PosixSteps
      [] p = "windows" -> WindowsSteps
      [] p = "embedded" -> EmbeddedSteps

(* airplay_server_deinit releases in this order; then net_deinit.  "raop"  *)
(* and "airplay" are the goodbyes.                                         *)
DeinitSteps ==
    <<"device", "raop", "airplay", "mdns_socket",
      "audio_socket", "control_socket", "timing_socket", "buffered_listener", "ptp",
      "rtsp_listener", "rtsp_lock", "control_lock", "crypto", "net">>

(* What a thread touches while it runs. *)
Needs(t) ==
    CASE t = "mdns"  -> {"net", "control_lock", "mdns_socket"}
      [] t = "rtsp"  -> {"net", "control_lock", "crypto"} \cup RtspParts
      [] t = "audio" -> {"net", "control_lock", "rtsp_lock", "crypto"} \cup PipelineParts

VARIABLES
    program,      \* which program runs
    starts,       \* how often it was started
    held,         \* how often each resource is acquired and not released
    flags,        \* the *_initialized flags of airplay_server_t
    main,         \* where the program is: its phase and a step index
    thread,       \* where each service thread is
    started,      \* number of threads created and not joined
    interrupted,  \* a signal, Ctrl+C, or the owner's decision to stop
    stopping,     \* server->stopping
    result,       \* server->result
    status,       \* what the program, or airplay_platform_stop, returns
    srp,          \* a pairing holds numbers in the pool of crypto_memory
    lost,         \* ghost: services whose goodbye could not be sent
    failed        \* ghost: a service failed since this start

mainVars == <<program, starts, held, flags, main, started, status, lost>>
vars == <<mainVars, thread, interrupted, stopping, result, failed, srp, discoveryVars>>

At(phase) == main.phase = phase
Goto(phase, step) == main' = [phase |-> phase, step |-> step]

Acquire(r) == held' = [held EXCEPT ![r] = @ + 1]
ReleaseAll(rs) == held' = [r \in Resources |-> IF r \in rs THEN held[r] - 1 ELSE held[r]]
Release(r) == ReleaseAll({r})
Held(rs) == {r \in rs : held[r] > 0}

Init ==
    /\ program \in Programs
    /\ starts = 1
    /\ held = [r \in Resources |-> 0]
    /\ flags = {}
    /\ main = [phase |-> "init", step |-> 1]
    /\ thread = [t \in Threads |-> "unborn"]
    /\ started = 0
    /\ interrupted = FALSE
    /\ stopping = FALSE
    /\ result = 0
    /\ status = 1
    /\ srp = FALSE
    /\ lost = {}
    /\ failed = FALSE
    /\ DiscoveryInit

----------------------------------------------------------------------------
(* The flag a successful step sets: initialized, rtsp_initialized,         *)
(* audio_initialized or discovery_initialized.                             *)
FlagOf(step) ==
    CASE step = "control_lock" -> {"initialized"}
      [] step = "rtsp_listener" -> {"rtsp"}
      [] step = "buffered_listener" -> {"pipeline"}
      [] step = "airplay" -> {"discovery"}
      [] OTHER -> {}

(* Mutant of memset_server: a restart finds the flags of the last run. *)
memset_nothing(step) == UNCHANGED <<stopping, result>>

(* airplay_server_init clears the server before its first step.            *)
memset_server(step) ==
    IF step = "crypto" THEN stopping' = FALSE /\ result' = 0
    ELSE UNCHANGED <<stopping, result>>

InitStep ==
    /\ At("init")
    /\ LET steps == InitSteps(program)
           step == steps[main.step]
       IN  /\ IF step \in Resources THEN Acquire(step) ELSE UNCHANGED held
           /\ flags' = flags \cup FlagOf(step)
           /\ memset_server(step)
           /\ IF step \in Services THEN mdns_announce(step) ELSE UNCHANGED advert
           /\ IF main.step = Len(steps) THEN Goto("spawn", 1)
              ELSE Goto("init", main.step + 1)
    /\ UNCHANGED <<program, starts, thread, started, interrupted, failed, status, srp, lost,
                   packet, answers>>

(* Mutant of UndoneBy: the crypto pool leaks when the lock fails. *)
UndoneByCreate(step) ==
    CASE step \in RtspParts -> RtspParts
      [] step \in PipelineParts -> PipelineParts
      [] step \in DiscoveryParts \cup Services -> DiscoveryParts
      [] OTHER -> {}

(* What the function that fails releases before it returns.                *)
UndoneBy(step) ==
    CASE step \in RtspParts -> RtspParts
      [] step \in PipelineParts -> PipelineParts
      [] step \in DiscoveryParts \cup Services -> DiscoveryParts
      [] step = "control_lock" -> {"crypto"}
      [] OTHER -> {}

(* A step fails.  Without signal handlers or networking the program ends;  *)
(* before the server counts as initialized only the network is released,   *)
(* afterwards airplay_server_deinit runs.                                  *)
InitFails ==
    /\ At("init")
    /\ LET step == InitSteps(program)[main.step] IN
       /\ CASE step \in {"sigaction", "net"} -> Goto("done", 0)
            [] step \in {"detect_identity", "crypto", "control_lock"} ->
                 Goto("deinit", Len(DeinitSteps))
            [] OTHER -> Goto("deinit", 1)
       /\ ReleaseAll(Held(UndoneBy(step)))
       /\ memset_server(step)
    /\ UNCHANGED <<program, starts, flags, thread, started, interrupted, failed, status, srp,
                   lost, discoveryVars>>

(* pthread_create, CreateThread or xTaskCreate, in order; at the first     *)
(* failure the program shuts down.                                         *)
SpawnThread ==
    /\ At("spawn")
    /\ thread' = [thread EXCEPT ![Entries[main.step]] = "check"]
    /\ started' = main.step
    /\ IF main.step = Len(Entries) THEN Goto("wait", 0) ELSE Goto("spawn", main.step + 1)
    /\ UNCHANGED <<program, starts, held, flags, interrupted, stopping, result, failed, status,
                   srp, lost, discoveryVars>>

SpawnFails ==
    /\ At("spawn")
    /\ Goto("stop", 0)
    /\ UNCHANGED <<program, starts, held, flags, thread, started, interrupted, stopping,
                   result, failed, status, srp, lost, discoveryVars>>

(* main watches both flags; the embedded owner stops when it wants to.     *)
WaitEnds ==
    /\ At("wait")
    /\ interrupted \/ (program # "embedded" /\ stopping)
    /\ status' = 0
    /\ Goto("stop", 0)
    /\ UNCHANGED <<program, starts, held, flags, thread, started, interrupted, stopping,
                   result, failed, srp, lost, discoveryVars>>

(* Mutant of airplay_server_stop: the threads are not told. *)
server_stop_untold ==
    /\ At("stop")
    /\ Goto("join", 0)
    /\ UNCHANGED <<program, starts, held, flags, thread, started, interrupted, stopping,
                   result, failed, status, srp, lost, discoveryVars>>

airplay_server_stop ==
    /\ At("stop")
    /\ stopping' = TRUE
    /\ Goto("join", 0)
    /\ UNCHANGED <<program, starts, held, flags, thread, started, interrupted, result,
                   failed, status, srp, lost, discoveryVars>>

(* Mutant of Joinable: the thread is not waited for. *)
JoinableAtOnce == TRUE

(* pthread_join and WaitForSingleObject wait for one thread, the event     *)
(* group for all of them.                                                  *)
Joinable ==
    IF program = "embedded"
    THEN \A i \in 1..started : thread[Entries[i]] = "exited"
    ELSE thread[Entries[started]] = "exited"

(* The last thread is joined, or its task deleted, first.                  *)
JoinThread ==
    /\ At("join")
    /\ started > 0
    /\ Joinable
    /\ started' = started - 1
    /\ UNCHANGED <<program, starts, held, flags, main, thread, interrupted, stopping,
                   result, failed, status, srp, lost, discoveryVars>>

(* After the last thread: the program gives up what is its own and reads   *)
(* the result of the services.                                             *)
airplay_server_result ==
    /\ At("join")
    /\ started = 0
    /\ ReleaseAll(Held({"console", "event_group"}))
    /\ status' = IF result # 0 THEN 1 ELSE status
    /\ Goto("deinit", 1)
    /\ UNCHANGED <<program, starts, flags, thread, started, interrupted, stopping, result, failed,
                   srp, lost, discoveryVars>>

(* airplay_server_deinit, one resource at a time, guarded by its flags.    *)
Guarded(r) ==
    CASE r \in {"device", "ptp"} -> held[r] > 0
      [] r \in RtspParts -> "rtsp" \in flags
      [] r \in PipelineParts -> "pipeline" \in flags
      [] r \in DiscoveryParts \cup Services -> "discovery" \in flags
      [] OTHER -> TRUE

(* Mutant of Goodbye: the service is not withdrawn. *)
GoodbyeForgotten(s) == UNCHANGED <<advert, lost>>

(* The goodbye is sent, unless the network refuses it.                     *)
Goodbye(s) ==
    \/ mdns_goodbye(s) /\ UNCHANGED lost
    \/ lost' = lost \cup {s} /\ UNCHANGED advert

(* rtsp_server_close closes the pairings, which frees their numbers.       *)
DeinitStep ==
    /\ At("deinit")
    /\ LET r == DeinitSteps[main.step] IN
       /\ IF Guarded(r) /\ r \in Resources THEN Release(r) ELSE UNCHANGED held
       /\ IF Guarded(r) /\ r \in Services THEN Goodbye(r) ELSE UNCHANGED <<advert, lost>>
       /\ srp' = IF r = "rtsp_listener" THEN FALSE ELSE srp
       /\ flags' = IF r = "crypto" THEN {} ELSE flags
    /\ IF main.step = Len(DeinitSteps) THEN Goto("done", 0) ELSE Goto("deinit", main.step + 1)
    /\ UNCHANGED <<program, starts, thread, started, interrupted, stopping, result, failed, status,
                   packet, answers>>

(* handle_signal, console_handler, or the owner's decision.                *)
Signal ==
    /\ ~interrupted
    /\ ~At("done")
    /\ interrupted' = TRUE
    /\ UNCHANGED <<mainVars, thread, stopping, result, failed, srp, discoveryVars>>

(* The owner starts the embedded receiver again; its server is static.     *)
airplay_platform_start ==
    /\ At("done")
    /\ program = "embedded"
    /\ starts < MaxStarts
    /\ starts' = starts + 1
    /\ Goto("init", 1)
    /\ thread' = [t \in Threads |-> "unborn"]
    /\ interrupted' = FALSE
    /\ status' = 1
    /\ lost' = {}
    /\ failed' = FALSE
    /\ UNCHANGED <<program, held, flags, started, stopping, result, srp, discoveryVars>>

----------------------------------------------------------------------------
(* The loop of a service thread: test the flag, then one poll.             *)
ThreadGoes(t, place) == thread' = [thread EXCEPT ![t] = place]

ThreadCheck(t) ==
    /\ thread[t] = "check"
    /\ ThreadGoes(t, IF ~stopping THEN "poll" ELSE IF t = "audio" THEN "leave" ELSE "return")
    /\ IF t = "mdns" THEN net_udp_recv(NoPacket) ELSE UNCHANGED discoveryVars
    /\ UNCHANGED <<mainVars, interrupted, stopping, result, failed, srp>>

ThreadPoll(t) ==
    /\ thread[t] = "poll"
    /\ ThreadGoes(t, "check")
    /\ UNCHANGED <<mainVars, interrupted, stopping, result, failed, srp, discoveryVars>>

server_fail == stopping' = TRUE /\ result' = -1 /\ failed' = TRUE

(* A poll fails: server_fail, and the next test of the flag ends the loop. *)
ThreadPollFails(t) ==
    /\ thread[t] = "poll"
    /\ server_fail
    /\ ThreadGoes(t, "check")
    /\ UNCHANGED <<mainVars, interrupted, srp, discoveryVars>>

(* The thread function ends: pthread_join returns, or service_task sets    *)
(* its bit of the event group.                                             *)
ThreadReturns(t) ==
    /\ thread[t] = "return"
    /\ ThreadGoes(t, "exited")
    /\ UNCHANGED <<mainVars, interrupted, stopping, result, failed, srp, discoveryVars>>

(* airplay_discovery_poll receives a packet and lets the two services      *)
(* handle it in turn; a failed send of the first ends the poll.            *)
ReceivePacket ==
    /\ thread["mdns"] = "poll"
    /\ \E p \in Packets : net_udp_recv(p)
    /\ ThreadGoes("mdns", "raop")
    /\ UNCHANGED <<mainVars, interrupted, stopping, result, failed, srp>>

HandlePacket(s) ==
    /\ thread["mdns"] = s
    /\ HandleQuietly(s) \/ send_response(s)
    /\ ThreadGoes("mdns", IF s = "raop" THEN "airplay" ELSE "check")
    /\ UNCHANGED <<mainVars, interrupted, stopping, result, failed, srp>>

HandleFails(s) ==
    /\ thread["mdns"] = s
    /\ SendFails(s)
    /\ server_fail
    /\ ThreadGoes("mdns", "check")
    /\ UNCHANGED <<mainVars, interrupted, srp>>

(* A pairing begins, or ends, in the RTSP thread.                          *)
Pairing ==
    /\ thread["rtsp"] = "poll"
    /\ srp' = ~srp
    /\ UNCHANGED <<mainVars, thread, interrupted, stopping, result, failed, discoveryVars>>

(* start_audio_session configures the pipeline, which opens the PTP        *)
(* sockets, and opens the output device; close_audio closes the device.    *)
Device(change) ==
    /\ thread["audio"] = "poll"
    /\ change
    /\ UNCHANGED <<program, starts, flags, main, started, status, lost, thread, interrupted,
                   stopping, result, failed, srp, discoveryVars>>

ptp_sync_open == Device(held["ptp"] = 0 /\ Acquire("ptp"))
OpenDevice == Device(held["device"] = 0 /\ Acquire("device"))
CloseDevice == Device(held["device"] > 0 /\ Release("device"))

(* start_audio_session fails after it closed the device: the loop breaks.  *)
StartFails ==
    /\ thread["audio"] = "poll"
    /\ server_fail
    /\ ReleaseAll(Held({"device"}))
    /\ ThreadGoes("audio", "leave")
    /\ UNCHANGED <<program, starts, flags, main, started, status, lost, interrupted, srp,
                   discoveryVars>>

(* airplay_audio_main closes the device and returns.                       *)
AudioLeave ==
    /\ thread["audio"] = "leave"
    /\ ReleaseAll(Held({"device"}))
    /\ ThreadGoes("audio", "return")
    /\ UNCHANGED <<program, starts, flags, main, started, status, lost, interrupted,
                   stopping, result, failed, srp, discoveryVars>>

Main ==
    \/ InitStep \/ InitFails \/ SpawnThread \/ SpawnFails \/ WaitEnds
    \/ airplay_server_stop \/ JoinThread \/ airplay_server_result \/ DeinitStep

airplay_discovery_poll ==
    \/ ReceivePacket
    \/ \E s \in Services : HandlePacket(s) \/ HandleFails(s)

airplay_audio_main == ptp_sync_open \/ OpenDevice \/ CloseDevice \/ StartFails \/ AudioLeave

ThreadLoop(t) == ThreadCheck(t) \/ ThreadPoll(t) \/ ThreadPollFails(t) \/ ThreadReturns(t)

Finished == At("done") /\ UNCHANGED vars

Next ==
    \/ Main \/ Signal \/ airplay_platform_start \/ Finished
    \/ \E t \in Threads : ThreadLoop(t)
    \/ airplay_discovery_poll \/ Pairing \/ airplay_audio_main

(* The scheduler runs main and every thread, and every poll has a timeout. *)
Fairness ==
    /\ WF_vars(Main)
    /\ \A t \in Threads : WF_vars(ThreadLoop(t))
    /\ WF_vars(\E s \in Services : HandlePacket(s) \/ HandleFails(s))
    /\ WF_vars(AudioLeave)

Spec == Init /\ [][Next]_vars /\ Fairness

----------------------------------------------------------------------------
Running(t) == thread[t] \notin {"unborn", "exited"}

(* No thread runs on a resource that is not there: init completes before   *)
(* the first thread, nothing is released before the last one ended (an     *)
(* embedded task reports its end to an event group that still exists), and *)
(* the pool outlives the numbers that pairings keep in it.                 *)
NoUseAfterRelease ==
    /\ \A t \in Threads : Running(t) =>
          /\ \A r \in Needs(t) : held[r] = 1
          /\ program = "embedded" => held["event_group"] = 1
    /\ srp => held["crypto"] = 1

(* Nothing is acquired or released twice, and the program ends with every  *)
(* socket, lock, pool, handle and device released, whichever step of       *)
(* init, thread start or service failed, at every start.                   *)
NoLeak ==
    /\ \A r \in Resources : held[r] \in {0, 1}
    /\ At("done") => Held(Resources) = {} /\ flags = {} /\ started = 0 /\ ~srp

(* A failure in any thread shows in the exit status, and a start that      *)
(* completed without one exits with 0, whatever happened in the starts     *)
(* before it.                                                              *)
StatusTruthful ==
    At("done") => (status = 0 <=> ~failed /\ \A t \in Threads : thread[t] = "exited")

(* A receiver that served and ended has told the network so, and nothing  *)
(* it said afterwards took that back: each service is withdrawn unless its *)
(* goodbye could not be sent.                                              *)
Withdrawn ==
    At("done") /\ thread["mdns"] # "unborn"
        => \A s \in Services \ lost : advert[s] = "withdrawn"

(* A poll of the mDNS thread that did not fail gave every service its      *)
(* turn: each answered exactly the packets that ask for it, and by unicast *)
(* exactly when the question it answers wants that.                        *)
AskedAnswered ==
    thread["mdns"] = "check" /\ result = 0
        => \A s \in Services : answers[s] = Expected(s, packet)

(* A signal, or a failure of one thread, ends all threads; main, or the    *)
(* owner's stop, then ends the program.                                    *)
Terminates ==
    /\ stopping ~> \A t \in Threads : ~Running(t)
    /\ interrupted \/ (stopping /\ program # "embedded") ~> At("done")
=============================================================================
