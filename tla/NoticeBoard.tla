------------------------------ MODULE NoticeBoard ------------------------------
(* What the shared ledger promises the districts, without its chain: a board   *)
(* on which a case posts the identifiers it holds, all of them at once or none,*)
(* and from which it takes back all it has posted. Nobody posts or takes back  *)
(* another case's notices.                                                     *)
CONSTANTS Cases, Identities, Publishers, NoCase

VARIABLES
    board,      \* set of <<identity, case>>
    known,      \* known[c]: the identifiers case c holds
    asked       \* asked[p]: what request p is to post or to take back

boardVars == <<board, known, asked>>

Nothing == [does |-> "nothing", case |-> NoCase, identities |-> {}, overtaken |-> FALSE]
Notices(case) == {n \in board : n[2] = case}

Init ==
    /\ board = {}
    /\ known = [c \in Cases |-> {}]
    /\ asked = [p \in Publishers |-> Nothing]

Learn(case) ==
    /\ \E id \in Identities : known' = [known EXCEPT ![case] = @ \cup {id}]
    /\ UNCHANGED <<board, asked>>

(* A request is for all the case holds, or for all it has on the board.       *)
Ask(p, case, does, ids) ==
    /\ asked[p] = Nothing
    /\ asked' = [asked EXCEPT ![p] = [does |-> does, case |-> case, identities |-> ids, overtaken |-> FALSE]]
    /\ UNCHANGED <<board, known>>

AskToPost(p, case) == Ask(p, case, "publish", known[case])
AskBack(p, case) == Ask(p, case, "withdraw", {n[1] : n \in Notices(case)})

(* What a request may do: everything it asked for. One that a taking back of   *)
(* the same case overtook may find part of it done, or undone.                 *)
Part(p) ==
    IF asked[p].overtaken THEN {ids \X {asked[p].case} : ids \in SUBSET asked[p].identities}
    ELSE {asked[p].identities \X {asked[p].case}}

Post(p) ==
    /\ asked[p].does = "publish"
    /\ \E notices \in Part(p) : board' = board \cup notices
    /\ asked' = [asked EXCEPT ![p] = Nothing]
    /\ UNCHANGED known

TakeBack(p) ==
    /\ asked[p].does = "withdraw"
    /\ \E notices \in Part(p) : board' = board \ notices
    /\ asked' = [q \in Publishers |->
                    IF q = p THEN Nothing
                    ELSE [asked[q] EXCEPT !.overtaken = @ \/ asked[q].case = asked[p].case]]
    /\ UNCHANGED known

(* A request fails and leaves no trace.                                       *)
GiveUp(p) ==
    /\ asked' = [asked EXCEPT ![p] = Nothing]
    /\ UNCHANGED <<board, known>>

Next ==
    \/ \E case \in Cases : Learn(case)
    \/ \E p \in Publishers, case \in Cases : AskToPost(p, case) \/ AskBack(p, case)
    \/ \E p \in Publishers : Post(p) \/ TakeBack(p) \/ GiveUp(p)

Spec == Init /\ [][Next]_boardVars

===============================================================================
