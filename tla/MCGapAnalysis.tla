--------------------------- MODULE MCGapAnalysis ---------------------------
(* Constants of GapAnalysis for model checking.                            *)
EXTENDS GapAnalysisProperties, TLC

CONSTANTS alice, ben, quickPaid, deepPaid, onTrial, unlimited

\* Every process reports a name of its own, so that permuting processes permutes
\* behaviours.
MCWorkerId  == [p \in Processes |-> p]
MCProcesses == Permutations(Processes)

\* One member submits everything, or two submit one request each: the row a
\* request finds for its identity may then be another member's.
MCOneUser  == [s \in Submissions |-> alice]
MCTwoUsers == [s \in Submissions |->
                 IF s = CHOOSE t \in Submissions : TRUE THEN alice ELSE ben]

\* What may be asked for: analyses of one or two units charged to the paid
\* plan's quota, one charged to the trial, one charged to nothing.
MCScope == [k \in Identities |-> CASE k = onTrial -> "TRIAL"
                                   [] k = unlimited -> "UNLIMITED"
                                   [] OTHER -> "REDIS"]
MCUnits == [k \in Identities |-> IF k = deepPaid THEN 2 ELSE 1]
MCLimit == [s \in {"REDIS", "TRIAL"} |-> 2]
=============================================================================
