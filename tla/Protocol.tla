------------------------------- MODULE Protocol -------------------------------
(***************************************************************************)
(* obligation_transfer (protocol.lua), message by message: a process signs *)
(* a document made from the issuer's template, sends it and parses the     *)
(* certificate that comes back.  It keeps the template from one call to    *)
(* the next, and the template of certificates in a file that all processes *)
(* share.  The issuer may change its template and any message may be lost. *)
(*                                                                         *)
(* The processes pay with one rand, one unit at a time.  The issuer is not *)
(* part of the repository: it is modelled by the answers protocol.lua      *)
(* tells apart.  What GateState!Transfer takes for one step is shown here  *)
(* to be one: Outcomes are the ends a call may have.                       *)
(***************************************************************************)
EXTENDS Naturals

CONSTANTS Callers,     \* processes that call obligation_transfer
          MaxTemplate, \* bound: the issuer's templates are 1..MaxTemplate
          Worth,       \* what the rand is worth at the start
          MaxCalls     \* bound: calls of one process

NoTemplate == 0        \* nil

ASSUME ProtocolAssumption ==
  MaxTemplate \in Nat \ {0} /\ Worth \in Nat /\ MaxCalls \in Nat

VARIABLES template,    \* what the issuer answers to template?ID=OBLIGATION_TRANSFER
          worth,       \* what the issuer has for the rand
          cached,      \* obligation_transfer_template of each process
          certFile,    \* the file with the template of certificates
          call         \* the call each process makes, or has made

protoVars == <<template, worth, cached, certFile, call>>

CertFiles == {"none", "good", "damaged"}
Results == {"none", "paid", "refused", "nothing"}

\* using is tpl; the last three are history: transfers that were executed,
\* whether something got lost, whether the rand was ever too poor.
NoCall == [pc |-> "idle", result |-> "none", using |-> NoTemplate, count |-> 0,
           executed |-> 0, lost |-> FALSE, poor |-> FALSE]

ProtoInit ==
  /\ template = 1
  /\ worth = Worth
  /\ cached = [p \in Callers |-> NoTemplate]
  /\ certFile \in CertFiles
  /\ call = [p \in Callers |-> NoCall]

Returns(p, result, lost) ==
  call' = [call EXCEPT ![p].pc = "idle", ![p].result = result, ![p].lost = lost]

\* The call starts, with a rand that is not the target's own.
Ask(p) ==
  /\ call[p].pc = "idle" /\ call[p].count < MaxCalls
  /\ call' = [call EXCEPT ![p] =
       [NoCall EXCEPT !.pc = IF cached[p] = NoTemplate THEN "fetch" ELSE "post",
                      !.using = cached[p], !.count = call[p].count + 1,
                      !.poor = (worth = 0)]]
  /\ UNCHANGED <<template, worth, cached, certFile>>

\* template_by_id, the first time in this process.
FetchTemplate(p) ==
  /\ call[p].pc = "fetch"
  /\ \/ /\ cached' = [cached EXCEPT ![p] = template]
        /\ call' = [call EXCEPT ![p].pc = "post", ![p].using = template]
     \/ Returns(p, "nothing", TRUE) /\ UNCHANGED cached
  /\ UNCHANGED <<template, worth, certFile>>

\* The document is not signed, or does not get through.
PostIsLost(p) ==
  /\ call[p].pc = "post"
  /\ Returns(p, "nothing", TRUE)
  /\ UNCHANGED <<template, worth, cached, certFile>>

\* The issuer executes a transfer that is made from its template; the reply
\* may be lost.
PostIsExecuted(p) ==
  /\ call[p].pc = "post" /\ call[p].using = template /\ worth > 0
  /\ worth' = worth - 1
  /\ \E heard \in BOOLEAN :
       call' = [q \in Callers |->
         LET c == [call[q] EXCEPT !.poor = @ \/ worth' = 0]
         IN  CASE q = p /\ heard -> [c EXCEPT !.executed = @ + 1, !.pc = "parse"]
               [] q = p /\ ~heard -> [c EXCEPT !.executed = @ + 1, !.pc = "idle",
                                              !.result = "nothing", !.lost = TRUE]
               [] OTHER -> c]
  /\ UNCHANGED <<template, cached, certFile>>

\* 404: another template, or a rand that cannot pay.
PostIsRefused(p) ==
  /\ call[p].pc = "post" /\ (call[p].using # template \/ worth = 0)
  /\ call' = [call EXCEPT ![p].pc = "refetch"]
  /\ UNCHANGED <<template, worth, cached, certFile>>

\* Mutant of Refetch: the new template is not kept for the next turn.
RefetchForgets(p) ==
  /\ call[p].pc = "refetch"
  /\ \/ Returns(p, "nothing", TRUE) /\ UNCHANGED cached
     \/ template = call[p].using /\ Returns(p, "refused", call[p].lost) /\ UNCHANGED cached
     \/ /\ template # call[p].using
        /\ cached' = cached
        /\ call' = [call EXCEPT ![p].pc = "post"]
  /\ UNCHANGED <<template, worth, certFile>>

\* Mutant of Refetch: every 404 is a client error, whatever the template is now.
RefetchGivesUp(p) ==
  /\ call[p].pc = "refetch"
  /\ Returns(p, "refused", call[p].lost)
  /\ UNCHANGED <<template, worth, cached, certFile>>

\* template_by_id after a 404: the same template is a client error, another one
\* is kept and the call starts again.
Refetch(p) ==
  /\ call[p].pc = "refetch"
  /\ \/ Returns(p, "nothing", TRUE) /\ UNCHANGED cached
     \/ template = call[p].using /\ Returns(p, "refused", call[p].lost) /\ UNCHANGED cached
     \/ /\ template # call[p].using
        /\ cached' = [cached EXCEPT ![p] = template]
        /\ call' = [call EXCEPT ![p].pc = "post", ![p].using = template]
  /\ UNCHANGED <<template, worth, certFile>>

\* Mutant of Parse: a damaged file is used as it is, and nothing is parsed.
ParseKeepsDamage(p) ==
  /\ call[p].pc = "parse"
  /\ \/ certFile # "none" /\ UNCHANGED certFile
        /\ Returns(p, IF certFile = "good" THEN "paid" ELSE "nothing", call[p].lost)
     \/ certFile = "none" /\ certFile' \in {"good", "damaged"} /\ Returns(p, "paid", call[p].lost)
     \/ certFile = "none" /\ UNCHANGED certFile /\ Returns(p, "nothing", TRUE)
  /\ UNCHANGED <<template, worth, cached>>

\* parse_message: a file with the right digest is used; any other one is
\* unlinked, the template fetched, and a new file written, whole or not.
Parse(p) ==
  /\ call[p].pc = "parse"
  /\ \/ certFile = "good" /\ UNCHANGED certFile /\ Returns(p, "paid", call[p].lost)
     \/ certFile # "good" /\ certFile' \in CertFiles /\ Returns(p, "paid", call[p].lost)
     \/ certFile # "good" /\ certFile' = "none" /\ Returns(p, "nothing", TRUE)
  /\ UNCHANGED <<template, worth, cached>>

\* The issuer puts a new template up; it does not go back to an old one.
NewTemplate ==
  /\ template < MaxTemplate
  /\ template' = template + 1
  /\ UNCHANGED <<worth, cached, certFile, call>>

\* The file is cut while another process writes it, or its medium fails.
Damage ==
  /\ certFile = "good"
  /\ certFile' = "damaged"
  /\ UNCHANGED <<template, worth, cached, call>>

Proceed(p) ==
  \/ FetchTemplate(p) \/ PostIsLost(p) \/ PostIsExecuted(p) \/ PostIsRefused(p)
  \/ Refetch(p) \/ Parse(p)

ProtoNext ==
  (\E p \in Callers : Ask(p) \/ Proceed(p)) \/ NewTemplate \/ Damage

ProtoSpec == ProtoInit /\ [][ProtoNext]_protoVars

----------------------------------------------------------------------------
\* The answer tells what has happened: a payment was executed once, a refused
\* one was not, and what is neither was cut short by a lost message; the retry
\* after a 404 never executes a second transfer, and a damaged file of a
\* template is never the reason (obligation_transfer, fetch_template).  A client
\* error is one: the rand could not pay at some time of the call, and that the
\* issuer had changed its template is never taken for it.
AnswerIsTrue ==
  \A p \in Callers :
    LET c == call[p]
    IN  /\ c.executed <= 1
        /\ c.result = "paid" => c.executed = 1
        /\ c.result = "refused" => c.executed = 0 /\ c.poor
        /\ c.result = "nothing" => c.lost

\* The call ends, as the issuer does not change its template for ever.
CallReturns == \A p \in Callers : call[p].pc # "idle" ~> call[p].pc = "idle"
=============================================================================
