------------------------------ MODULE XraySlot ------------------------------
(***************************************************************************)
(* The one embedded Xray core of the process: internal/exitprobe, the      *)
(* channel embeddedXraySlot with its acquire and release, and the two      *)
(* owners of a core, ExitProber (exitprobe.go) and FetchGateway            *)
(* (gateway.go).                                                           *)
(*                                                                         *)
(* The channel has room for one token and holds it while no core runs.     *)
(* Every client takes the token before it creates its core and puts it     *)
(* back after it closed it; nothing but the clients' own flags ties the    *)
(* token to the core.  A send on a full channel blocks its sender for      *)
(* good, so giving the token back twice is either a hang or a second core. *)
(*                                                                         *)
(* A client is one ExitProber or one FetchGateway.  Its phase says where   *)
(* in Start or Stop its goroutine is; ep.mu keeps it from being in two     *)
(* places at once (a gateway has no mutex, and no second goroutine).       *)
(***************************************************************************)
CONSTANT Clients

VARIABLES
  slot,       \* the token is in the channel
  instance,   \* instance[c]: the client's core exists and runs
  ownsCore,   \* ownsCore[c]: the client has a token to give back
  phase,      \* phase[c]: where the client's goroutine is
  lost        \* a core runs that no variable of the program refers to

slotVars == <<slot, instance, ownsCore, phase, lost>>

(* idle        outside of Start and Stop                                   *)
(* waiting     in acquireEmbeddedXray                                      *)
(* starting    it has the token, and builds and starts the core            *)
(* stopping    Stop has closed the core and now gives the token back       *)
(* restarting  so has a Start that found a core of its own running         *)
Phases == {"idle", "waiting", "starting", "stopping", "restarting"}

SlotInit ==
  /\ slot = TRUE
  /\ instance = [c \in Clients |-> FALSE]
  /\ ownsCore = [c \in Clients |-> FALSE]
  /\ phase = [c \in Clients |-> "idle"]
  /\ lost = FALSE

(* Start closes the client's previous core, if it has one, and waits.      *)
Start(c) ==
  /\ phase[c] = "idle"
  /\ phase' = [phase EXCEPT ![c] = IF instance[c] /\ ownsCore[c]
                                   THEN "restarting" ELSE "waiting"]
  /\ instance' = [instance EXCEPT ![c] = FALSE]
  /\ UNCHANGED <<slot, ownsCore, lost>>

(* The select of acquireEmbeddedXray: the token, or the end of the context.*)
Acquire(c) ==
  /\ phase[c] = "waiting"
  /\ slot
  /\ slot' = FALSE
  /\ phase' = [phase EXCEPT ![c] = "starting"]
  /\ UNCHANGED <<instance, ownsCore, lost>>

(* Defective variant: the release is deferred before the error of the      *)
(* acquisition is looked at.                                               *)
TimeoutReleasing(c) ==
  /\ phase[c] = "waiting"
  /\ ~slot
  /\ slot' = TRUE
  /\ phase' = [phase EXCEPT ![c] = "idle"]
  /\ UNCHANGED <<instance, ownsCore, lost>>

Timeout(c) ==
  /\ phase[c] = "waiting"
  /\ phase' = [phase EXCEPT ![c] = "idle"]
  /\ UNCHANGED <<slot, instance, ownsCore, lost>>

(* The core is up.  *)
Started(c) ==
  /\ phase[c] = "starting"
  /\ phase' = [phase EXCEPT ![c] = "idle"]
  /\ instance' = [instance EXCEPT ![c] = TRUE]
  /\ ownsCore' = [ownsCore EXCEPT ![c] = TRUE]
  /\ UNCHANGED <<slot, lost>>

(* Defective variant: `started' is set before the core is, so that the     *)
(* deferred function of a failed start gives nothing back.                 *)
StartFailedKeeping(c) ==
  /\ phase[c] = "starting"
  /\ ~slot
  /\ phase' = [phase EXCEPT ![c] = "idle"]
  /\ UNCHANGED <<slot, instance, ownsCore, lost>>

(* A bad configuration, a core that does not start, or a panic in between: *)
(* the deferred function gives the token back, `started' being still false.*)
StartFailed(c) ==
  /\ phase[c] = "starting"
  /\ ~slot
  /\ slot' = TRUE
  /\ phase' = [phase EXCEPT ![c] = "idle"]
  /\ UNCHANGED <<instance, ownsCore, lost>>

(* Stop and Close: first the core ... *)
Stop(c) ==
  /\ phase[c] = "idle"
  /\ instance' = [instance EXCEPT ![c] = FALSE]
  /\ phase' = [phase EXCEPT ![c] = IF ownsCore[c] THEN "stopping" ELSE "idle"]
  /\ UNCHANGED <<slot, ownsCore, lost>>

(* Defective variant: the client forgets to clear its flag, and a second   *)
(* Stop gives back a token it no longer has.                               *)
ReleaseKept(c) ==
  /\ phase[c] \in {"stopping", "restarting"}
  /\ ~slot
  /\ slot' = TRUE
  /\ phase' = [phase EXCEPT ![c] = IF @ = "restarting" THEN "waiting" ELSE "idle"]
  /\ UNCHANGED <<instance, ownsCore, lost>>

(* ... then the token, if it still has one.  The send waits for room.      *)
Release(c) ==
  /\ phase[c] \in {"stopping", "restarting"}
  /\ ~slot
  /\ slot' = TRUE
  /\ phase' = [phase EXCEPT ![c] = IF @ = "restarting" THEN "waiting" ELSE "idle"]
  /\ ownsCore' = [ownsCore EXCEPT ![c] = FALSE]
  /\ UNCHANGED <<instance, lost>>

(* Nobody stops the client: a panic unwinds past the only variable that    *)
(* refers to it.  Its core runs on, and its token is never given back.     *)
(* What instance[c] and ownsCore[c] say from here on is said of the client *)
(* that the same call site makes next.                                     *)
Forget(c) ==
  /\ phase[c] = "idle"
  /\ instance[c]
  /\ instance' = [instance EXCEPT ![c] = FALSE]
  /\ ownsCore' = [ownsCore EXCEPT ![c] = FALSE]
  /\ lost' = TRUE
  /\ UNCHANGED <<slot, phase>>

(* The process ends and starts again, and the cores end with it.           *)
SlotReset ==
  /\ slot' = TRUE
  /\ instance' = [c \in Clients |-> FALSE]
  /\ ownsCore' = [c \in Clients |-> FALSE]
  /\ phase' = [c \in Clients |-> "idle"]
  /\ lost' = FALSE

SlotNext ==
  \/ \E c \in Clients :
       \/ Start(c) \/ Acquire(c) \/ Timeout(c) \/ Started(c) \/ StartFailed(c)
       \/ Stop(c) \/ Release(c) \/ Forget(c)
  \/ SlotReset

SlotSpec == SlotInit /\ [][SlotNext]_slotVars

----------------------------------------------------------------------------
SlotTypeOK ==
  /\ slot \in BOOLEAN
  /\ instance \in [Clients -> BOOLEAN]
  /\ ownsCore \in [Clients -> BOOLEAN]
  /\ phase \in [Clients -> Phases]
  /\ lost \in BOOLEAN

(* No two cores run or are being built at a time, be it those of two       *)
(* clients, or of a client and one that was lost.                          *)
AtMostOneCore ==
  LET HasCore(c) == instance[c] \/ phase[c] = "starting"
  IN  /\ \A c, d \in Clients : HasCore(c) /\ HasCore(d) => c = d
      /\ lost => \A c \in Clients : ~HasCore(c)

(* Whoever is about to give the token back finds the channel empty, so the *)
(* send of releaseEmbeddedXray never blocks, also not under ep.mu.         *)
ReleaseNeverBlocks ==
  \A c \in Clients :
    phase[c] \in {"starting", "stopping", "restarting"} => ~slot
=============================================================================
