--------------------------- MODULE MCRunLifecycle ---------------------------
(***************************************************************************)
(* Small instances of RunLifecycle for TLC.                                *)
(***************************************************************************)
EXTENDS RunLifecycle, TLC

CONSTANTS r1, r2, j1, j2, j3, w1, w2, w3, b1, b2, t1, k1

\* Each job in a process of its own.
MCOwnPerJob == [j \in Jobs |-> IF j = j1 THEN w1 ELSE IF j = j2 THEN w2 ELSE w3]

\* The same with a process named by its job, so that the two are permuted together.
MCOwnSelf == [j \in Jobs |-> j]

\* The first two jobs in one process, as graphile-worker runs them.
MCSharedOwners == [j \in Jobs |-> IF j \in {j1, j2} THEN w1 ELSE w2]

\* Independent runs, and a second run delegated from the first.
MCNoParent == [r \in Runs |-> NoRun]
MCParent == [r \in Runs |-> IF r = r2 THEN r1 ELSE NoRun]

\* One bot answering in one direct thread, and two bots sharing a thread; they share
\* a computer.
MCBotOf == [r \in Runs |-> b1]
MCTwoBots == [r \in Runs |-> IF r = r1 THEN b1 ELSE b2]
MCThreadOf == [r \in Runs |-> t1]
MCComputerOf == [b \in Bots |-> k1]
MCBotLimit == [b \in Bots |-> 2]
MCThreadLimit == [t \in Threads |-> 1]

\* Jobs of one process are interchangeable, and so are processes with one job each.
MCJobSymmetry == Permutations({j1, j2})
=============================================================================
