------------------------------ MODULE MCCasino ------------------------------
(***************************************************************************)
(* The casino on a small instance.                                         *)
(***************************************************************************)
EXTENDS CasinoRecovery, TLC

CONSTANTS ann, bob, wheel, duel, derby, yes, no,   \* players, sessions, options
          HouseChips   \* chips the house owns at the beginning

MCWallets == [u \in Player |-> 8]
Swap == Permutations(Player)
MCOdds == [single |-> 3]
MCCreator == [x \in Board |-> ann]
NoBoards == [x \in {} |-> x]

MCSpec == CasinoInit(HouseChips) /\ [][Next]_vars

BoardFairness ==
  /\ WF_vars(Boot) /\ WF_vars(ReleaseReservations) /\ WF_vars(FinishRecovery)
  /\ WF_vars(\E s \in Session : RecoverSession(s))
  /\ WF_vars(\E u \in Player : RedeemAtStart(u))
  /\ \A x \in Board :
       /\ WF_vars(AutoClose(x) /\ Outside)
       /\ WF_vars((\E u \in Player : FinalizeIfNoDispute(x, u)) /\ Outside)

MCLiveSpec == MCSpec /\ BoardFairness

\* While the casino is open the scheduler closes every late board and settles
\* every reported one whose stakes agree with its bets.
BoardsMoveOn ==
  \A x \in Board :
    /\ (board[x].status = "open" /\ board[x].late)
         ~> (board[x].status # "open" \/ status # "open")
    /\ (board[x].status = "reported" /\ Matches(vault, x))
         ~> (board[x].status # "reported" \/ status # "open"
               \/ ~Matches(vault, x))

=============================================================================
