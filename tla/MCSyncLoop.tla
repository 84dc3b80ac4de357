----------------------------- MODULE MCSyncLoop -----------------------------
(* Instance of SyncLoop for TLC: reply bodies that reach every check.        *)
EXTENDS SyncLoop, TLC

\* A truthful server, its clock theta off, with the trip [out, hold, back].
Timed(st, li, theta, trip) ==
    [form |-> "fine", st |-> st, li |-> li, theta |-> theta, out |-> trip[1],
     hold |-> trip[2], said |-> trip[2], back |-> trip[3]]

Good    == Timed(1, 0, 3, <<1, 1, 0>>)
Lying   == [Timed(2, 0, 0, <<1, 0, 2>>) EXCEPT !.said = 2]
Refused == [Timed(2, 0, 0, <<1, 0, 2>>) EXCEPT !.said = 9]
Formed(f, li) == [Good EXCEPT !.form = f, !.li = li]

\* One body per verdict; accepted ones with all of the delay on one way, with
\* a server clock behind ours, at both ends of the strata, and one whose
\* server misstates its hold time.
AllBodies == {Good, Timed(15, 1, -3, <<0, 2, 5>>), Lying, Refused,
              Timed(0, 0, 0, <<1, 1, 1>>), Timed(2, 3, 0, <<1, 1, 1>>),
              Formed("unparsable", 1), Formed("mode", 2), Formed("xmit0", 0),
              Timed(1, 0, 20, <<1, 1, 1>>), Timed(1, 0, 0, <<30, 1, 30>>)}

\* Servers that always answer well.
FineBodies == {Good}

\* Timestamps are only compared for equality.
IdSymmetry == Permutations(Ids)

=============================================================================
