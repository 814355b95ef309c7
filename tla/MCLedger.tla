------------------------------ MODULE MCLedger ------------------------------
(***************************************************************************)
(* Small journals for LedgerRaces: a wallet, the withdrawal clearing       *)
(* account and SYSTEM_EXTERNAL.                                            *)
(*   hold     wallet -> clearing          (a withdrawal hold)              *)
(*   hold2    a second, smaller hold on the same wallet                    *)
(*   release  clearing -> wallet          (locks in the opposite order)    *)
(*   inflow   external -> clearing -> wallet, the clearing account twice,  *)
(*            like the four lines of an allocated contribution             *)
(*   twice    two debits of the wallet in one journal                      *)
(*   zero     a journal with zero lines                                    *)
(*   uneven   a journal that is not balanced                               *)
(***************************************************************************)
EXTENDS LedgerRaces, TLC

L(a, d) == [account |-> a, delta |-> d]

MCAccounts == {"wallet", "clearing", "external"}
MCExternal == {"external"}
MCOpening == ("wallet" :> 2) @@ ("clearing" :> 1) @@ ("external" :> -3)

AllJournals ==
    ("hold"    :> <<L("wallet", -2), L("clearing", 2)>>) @@
    ("hold2"   :> <<L("wallet", -1), L("clearing", 1)>>) @@
    ("release" :> <<L("clearing", -1), L("wallet", 1)>>) @@
    ("inflow"  :> <<L("external", -1), L("clearing", 1), L("clearing", -1), L("wallet", 1)>>) @@
    ("twice"   :> <<L("wallet", -2), L("wallet", -1), L("external", 3)>>) @@
    ("zero"    :> <<L("wallet", 0), L("clearing", 0)>>) @@
    ("uneven"  :> <<L("wallet", -1), L("clearing", 2)>>)

MCKeys == DOMAIN AllJournals
MCJournal == AllJournals

MCRaceKeys == {"hold", "release", "inflow"}
MCRaceJournal == [k \in MCRaceKeys |-> AllJournals[k]]

MCHoldKeys == {"hold", "hold2"}
MCHoldJournal == [k \in MCHoldKeys |-> AllJournals[k]]

=============================================================================
