------------------------ MODULE MCStreamSubscriptions ------------------------
(* A small instance of StreamSubscriptions: one id and three overlapping   *)
(* unsubscribe requests reach every race between requests.  Requests for   *)
(* different ids touch different entries (StreamProofs: OthersUntouched).  *)
EXTENDS StreamSubscriptions

CONSTANTS s1, c1, c2, c3

OneSub == {s1}
ThreeCalls == {c1, c2, c3}
=============================================================================
