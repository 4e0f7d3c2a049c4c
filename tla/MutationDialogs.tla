--------------------------- MODULE MutationDialogs ---------------------------
(***************************************************************************)
(* The dialogs of the dashboard that create and edit: each is a page of    *)
(* its own, so one is open at a time, and it starts afresh as it opens.    *)
(* The dialog of a subscription is that of PoolForm; the dialog of a host  *)
(* has variables of its own.                                               *)
(***************************************************************************)
EXTENDS PoolForm, FiniteSets

CONSTANTS
  HostIds, MaxNoise, MaxHeaders,
  MaxHostEdits     \* bounds, as in HostForm

ASSUME MutationDialogsAssumption ==
  /\ HostIds \subseteq Nat \ {0} /\ IsFiniteSet(HostIds)
  /\ MaxNoise \in Nat \ {0} /\ MaxHeaders \in Nat /\ MaxHostEdits \in Nat

VARIABLES
  hostOpen, host, profile, hostForm, section, copy, aliased, touched, hostEdits, hostSent

hostVars == <<hostOpen, host, profile, hostForm, section, copy, aliased, touched, hostEdits,
              hostSent>>
dialogVars == <<vars, hostVars>>

H == INSTANCE HostForm WITH
       open <- hostOpen, entity <- host, form <- hostForm, edits <- hostEdits,
       sent <- hostSent, MaxEdits <- MaxHostEdits

DialogsInit == Init /\ H!Init

Idle == sent \union hostSent = {}

PoolDialog == ~hostOpen /\ (open \/ Idle) /\ Next /\ UNCHANGED hostVars
HostDialog == ~open /\ (hostOpen \/ Idle) /\ H!Next /\ UNCHANGED vars

(* What was submitted is remembered until the next dialog opens. *)
Forgets ==
  /\ ~open /\ ~hostOpen /\ ~Idle
  /\ sent' = {} /\ hostSent' = {}
  /\ UNCHANGED <<open, entity, local, rows, chosen, edits, syncs, hostOpen, host, profile,
                 hostForm, section, copy, aliased, touched, hostEdits>>

DialogsNext == PoolDialog \/ HostDialog \/ Forgets

(* React draws what has changed. *)
Draws == Render /\ UNCHANGED hostVars
DialogsSpec == DialogsInit /\ [][DialogsNext]_dialogVars /\ WF_dialogVars(Draws)

-----------------------------------------------------------------------------
(* Besides SentAgrees and Settles of PoolForm: *)

DialogsTypeOK == TypeOK /\ H!TypeOK

(* What the administrator did not touch of a host is kept: the fields that its
   schema names, on their way through the form, and the rows of noise, which are
   drawn from a copy.  If the panel refuses what is sent, it is for a text that the
   administrator typed. *)
HostIsKept == H!KeepsUntouched /\ H!NoiseIsDrawn /\ H!OnlyTypedIsRefused
=============================================================================
