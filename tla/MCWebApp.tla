------------------------------ MODULE MCWebApp ------------------------------
(* WebApp on a small instance.                                             *)
EXTENDS WebApp, TLC

CONSTANTS f1, f2, msft, ibm, d1

MCTicksPerDay == 10

Slot(from, to) == [start |-> from, end |-> to]

Trading(ticker, slot) ==
    [form |-> "RegisterTrading", date |-> d1, ticker |-> ticker, slot |-> slot]
Finishing(job, slot) ==
    [form |-> "FinishTrading", date |-> d1, jobId |-> job, slot |-> slot]

\* Two users plan at the same time, for different stocks.
MCRace == << Trading(msft, Slot(1, 6)), Trading(ibm, Slot(2, 4)) >>

(***************************************************************************)
(* Slots on one stock that enclose each other, so that both forms may plan;*)
(* another stock, for a conflict of versions alone; an end before the      *)
(* start; the job of the first or the second attempt of the other form     *)
(* finished; a client; a stock that both forms may register.               *)
(***************************************************************************)
MCEverything ==
    MCRace \o
    << Trading(msft, Slot(2, 4)),
       Trading(msft, Slot(6, 1)),
       Finishing(<<f1, 1>>, Slot(1, 2)),
       Finishing(<<f1, 2>>, Slot(1, 2)),
       [form |-> "RegisterClient"],
       [form |-> "RegisterStock", ticker |-> ibm] >>

EntriesOf(list) == {list[i] : i \in DOMAIN list}

MCRaceEntries == EntriesOf(MCRace)
MCEntries == EntriesOf(MCEverything)

MCAttempts == Attempts
MCKeys == Attempts \cup Tickers
MCCommands == {CommandOf(e, a) : e \in {e \in Entries : e.form \in {"RegisterTrading",
                                                                     "FinishTrading"}},
                                 a \in Attempts}

(***************************************************************************)
(* Forms are alike, so it is enough that they are numbered in the order of *)
(* what is entered.  The commands of registration forms are never served.  *)
(***************************************************************************)
MCInit ==
    /\ \E i, j \in {k \in DOMAIN MCEverything : MCEverything[k] \in Entries} :
          /\ i <= j
          /\ entry = f1 :> MCEverything[i] @@ f2 :> MCEverything[j]
    /\ date = [a \in Attempts |-> d1]
    /\ command = [a \in Attempts |->
                     IF IsPlanning(Form(a)) THEN CommandOf(entry[Form(a)], a)
                     ELSE CHOOSE c \in Commands : TRUE]
    /\ key = [a \in Attempts |-> KeyOf(entry[Form(a)], a)]
    /\ WebInit

MCSpec == MCInit /\ [][WebNext]_webVars

\* The users' stocks differ, so that no rule of the aggregate is in the way.
MCRaceInit ==
    /\ MCInit
    /\ entry[f1] # entry[f2]

MCRaceSpec == MCRaceInit /\ [][WebNext]_webVars

=============================================================================
