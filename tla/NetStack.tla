------------------------------ MODULE NetStack ------------------------------
(***************************************************************************)
(* What surrounds the receive path: the mutexes (CoreLock), the tap table  *)
(* (L2Tap), and bring-up by DHCP or with a static address (BringUp).  A    *)
(* behaviour is one of these parts, chosen at the start; the variables of  *)
(* the others stay as they are.                                            *)
(***************************************************************************)
EXTENDS CoreLock

CONSTANTS
    Types, Cbs, L2_TAP_SLOTS, Concurrent,        \* L2Tap
    Retries, Faults, MaxEvents                   \* BringUp

VARIABLES
    part,                                        \* the part this behaviour is about
    s_taps, todo, tapped, slot, loaded, called,  \* L2Tap; slot: its at
    static, done, call, step, result, cable, phy, events, link_up, has_ip, notified, ppc,
    now, ip_up, told, ipbit                      \* BringUp

Tap == INSTANCE L2Tap WITH at <- slot
Up == INSTANCE BringUp

\* nobody registers EtherType 0, the mark of an unused slot, and NULL is no callback
ASSUME NetStackAssumption ==
    /\ L2_TAP_SLOTS \in Nat /\ 0 \notin Types /\ 0 \notin Cbs
    /\ MaxEvents \in Nat

tapVars == <<s_taps, todo, tapped, slot, loaded, called>>
upVars == <<static, done, call, step, result, cable, phy, events, link_up, has_ip, notified,
            ppc, now, ip_up, told, ipbit>>

StackInit ==
    /\ part \in {"locks", "taps", "up"}
    /\ Init /\ Tap!Init /\ Up!Init
    /\ part # "up" => ~cable /\ ~static /\ done = {}

LockStep == part = "locks" /\ Next /\ UNCHANGED <<part, tapVars, upVars>>
TapStep == part = "taps" /\ Tap!Next /\ UNCHANGED <<part, vars, upVars>>
UpStep == part = "up" /\ Up!Next /\ UNCHANGED <<part, vars, tapVars>>

StackSpec ==
    /\ StackInit
    /\ [][LockStep \/ TapStep \/ UpStep]_<<part, vars, tapVars, upVars>>
    /\ part = "up" => Up!Fairness
-----------------------------------------------------------------------------
(***************************************************************************)
(* Between registrations the tap table is the map that the calls of        *)
(* net_stack_l2_tap describe, and cleared taps gave their slots back       *)
(* (L2Tap).                                                                *)
(***************************************************************************)
TableIsMap == Tap!TableIsMap

(***************************************************************************)
(* dispatch_tap calls registered callbacks only, with their own user       *)
(* pointer, when taps change between frames (L2Tap).                       *)
(***************************************************************************)
CalledAsRegistered == Tap!CalledAsRegistered

(***************************************************************************)
(* No task meets an object that net_stack_init has yet to create, however  *)
(* early the driver runs and wherever init or attach fails, as long as a   *)
(* failed init is not repeated (BringUp).                                  *)
(***************************************************************************)
ObjectsBeforeUse == Up!ObjectsBeforeUse

(***************************************************************************)
(* Between two polls ip_up, the event callback and the bit that            *)
(* esp_smoltcp_wait_for_ip looks at report the same (BringUp).             *)
(***************************************************************************)
IpReportsAgree == Up!IpReportsAgree

(***************************************************************************)
(* No link event of a driver that the attach starts is lost (BringUp).     *)
(***************************************************************************)
LinkInSync == Up!LinkInSync

(***************************************************************************)
(* An address reaches esp_smoltcp_wait_for_ip, a static one too, although  *)
(* no deadline wakes the poll task for it (BringUp).                       *)
(***************************************************************************)
IpAnnounced == part = "up" => Up!IpAnnounced
=============================================================================
