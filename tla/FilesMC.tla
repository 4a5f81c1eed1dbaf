------------------------------- MODULE FilesMC -------------------------------
(***************************************************************************)
(* The issuer protocol, and what is kept in files of their own: random     *)
(* numbers, billing log, fixed addresses, tariffs.  Five components that   *)
(* do not interact, checked in one run: part says which one takes steps,   *)
(* the variables of the others keep one value.                             *)
(***************************************************************************)
EXTENDS RngSerial, BillingLog, Protocol, FixIpAcl, Tariff

VARIABLE part

filesVars == <<part, rngVars, billVars, protoVars, fixVars, tariffVars>>

ProtoIdle == template = 1 /\ worth = Worth /\ cached = [p \in Callers |-> NoTemplate]
             /\ certFile = "none" /\ call = [p \in Callers |-> NoCall]
TariffIdle == table = <<>> /\ want = 0 /\ quoted = -1 /\ got = -1

FilesInit ==
  /\ part \in {"rng", "bill", "proto", "fix", "tariff"}
  /\ RngInit /\ BillInit /\ FixInit
  /\ IF part = "proto" THEN ProtoInit ELSE ProtoIdle
  /\ IF part = "tariff" THEN TariffInit ELSE TariffIdle

FilesNext ==
  /\ UNCHANGED part
  /\ \/ /\ part = "rng" /\ RngNext
        /\ UNCHANGED <<billVars, protoVars, fixVars, tariffVars>>
     \/ /\ part = "bill" /\ BillNext
        /\ UNCHANGED <<rngVars, protoVars, fixVars, tariffVars>>
     \/ /\ part = "proto" /\ ProtoNext
        /\ UNCHANGED <<rngVars, billVars, fixVars, tariffVars>>
     \/ /\ part = "fix" /\ FixNext
        /\ UNCHANGED <<rngVars, billVars, protoVars, tariffVars>>
     \/ /\ part = "tariff" /\ TariffNext
        /\ UNCHANGED <<rngVars, billVars, protoVars, fixVars>>

\* A process that has called the issuer goes on: a request that is not answered
\* ends in a timeout.
Fairness ==
  \A p \in Callers : WF_filesVars(
    /\ part = "proto" /\ Proceed(p)
    /\ UNCHANGED <<part, rngVars, billVars, fixVars, tariffVars>>)

FilesSpec == FilesInit /\ [][FilesNext]_filesVars /\ Fairness

----------------------------------------------------------------------------
(* Values of the constants.                                                 *)

Acls == {DefaultAcl, "other", NoAcl}
TariffLines == [time : 1..5, amount : 1..4, acl : Acls]
\* One tariff, or a dearer one for a longer time before it.
TwoTariffs ==
  {<<l>> : l \in TariffLines} \cup
  {tab \in {<<l, m>> : l \in TariffLines, m \in TariffLines} :
     tab[1].time > tab[2].time /\ tab[1].amount > tab[2].amount}
Times == 1..7
=============================================================================
