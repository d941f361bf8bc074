--------------------------- MODULE MCBackpressure ---------------------------
(* Instances of Backpressure for TLC.                                      *)
EXTENDS Backpressure, TLC

CONSTANTS p1, p2, i1, i2

(* One permit of the shared lane is out of reach of public requests; the   *)
(* public lane has one place to wait.                                      *)
MCLimit == "http" :> 2 @@ "public" :> 1 @@ "shared" :> 2 @@ "contact" :> 1
MCMaxQueued == "http" :> 1 @@ "public" :> 1 @@ "shared" :> 2 @@ "contact" :> 1
=============================================================================
