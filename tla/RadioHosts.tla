----------------------------- MODULE RadioHosts -----------------------------
(***************************************************************************)
(* The radio device and the flight program that drives it: the cFS         *)
(* application, the F' component or the checkout program.  They share the  *)
(* device protocol library and the device's ports; only one of them runs.  *)
(***************************************************************************)
EXTENDS RadioLink, FprimeRadio, Checkout

VARIABLE host \* the program that runs

programVars == <<callVars, fprimeVars, checkoutVars>>
hostsVars == <<vars, programVars, host>>

\* RadioHK is a global of the checkout program, which C zeroes, and a member
\* the constructor of the component does not initialise.
HostsInit ==
    /\ Init
    /\ FprimeInit
    /\ CheckoutInit
    /\ \/ host \in {"cfs", "checkout"} /\ CallInit(NoAnswer)
       \/ host = "fprime" /\ CallInit(Uninitialised)

DeviceSide == (RunStep \/ CallbackStep \/ NetworkStep) /\ UNCHANGED <<programVars, host>>

CfsRuns ==
    /\ host = "cfs"
    /\ MainStep
    /\ UNCHANGED <<programVars, host>>

CfsCommanded ==
    /\ host = "cfs"
    /\ GroundStep
    /\ UNCHANGED <<programVars, host>>

Others == UNCHANGED <<devVars, appVars, dark, host>>

FprimeCommanded == host = "fprime" /\ FpCommand /\ UNCHANGED checkoutVars /\ Others
FprimeReports == host = "fprime" /\ FpReport /\ UNCHANGED checkoutVars /\ Others

CheckoutTyped == host = "checkout" /\ CkLine /\ UNCHANGED fprimeVars /\ Others
CheckoutInputEnds == host = "checkout" /\ CkEnd /\ UNCHANGED fprimeVars /\ Others
CheckoutRuns ==
    /\ host = "checkout"
    /\ CkCreate \/ CkReport \/ CkClose
    /\ UNCHANGED fprimeVars
    /\ Others

HostsNext ==
    \/ DeviceSide
    \/ CfsRuns \/ CfsCommanded
    \/ FprimeCommanded \/ FprimeReports
    \/ CheckoutTyped \/ CheckoutInputEnds \/ CheckoutRuns

\* The program that runs is scheduled: its task wakes when the delay is over.
HostsSpec ==
    /\ HostsInit /\ [][HostsNext]_hostsVars
    /\ WF_hostsVars(CfsRuns) /\ WF_hostsVars(FprimeReports) /\ WF_hostsVars(CheckoutRuns)

HostsTypeOK ==
    /\ TypeOK /\ CallTypeOK /\ FprimeTypeOK /\ CheckoutTypeOK
    /\ host \in {"cfs", "fprime", "checkout"}

(***************************************************************************)
(* The exchange of the two other programs with the device implements the   *)
(* same housekeeping service as that of the cFS application.               *)
(***************************************************************************)
HostService == INSTANCE HkService WITH issued <- asked, served <- returned,
                                       missed <- failed, newest <- radioHK.id
HostServiceSpec == HostService!SvcSpec

(***************************************************************************)
(* Neither of the two other programs decodes an answer twice, however many *)
(* come late or never: each lags the newest request by no more than the    *)
(* failures GENERIC_RADIO_RequestHK reported to it.                        *)
(***************************************************************************)
HostSkewBounded == returned <= radioHK.id + failed

(***************************************************************************)
(* What a program takes for the device's report is an answer of the device *)
(* once any request succeeded, whatever third parties send and however     *)
(* many requests fail; until then the F' component may publish a structure *)
(* it never initialised.                                                   *)
(***************************************************************************)
ReportIsAnswer ==
    returned > failed =>
        /\ radioHK.kind = "reply" /\ radioHK.id > 0
        /\ host = "fprime" => channel.device.kind = "reply"

(***************************************************************************)
(* Every command a program takes is served to the end, whatever the device *)
(* and the network do: with finitely many commands, the program is again   *)
(* and again done with all it took, and waits for no answer that may never *)
(* come.                                                                   *)
(***************************************************************************)
CommandsServed == []<>(handled = accepted /\ finished = given)
=============================================================================
