-------------------------------- MODULE MCFiles --------------------------------
(* An instance of Files: a directory d with a file a, and a file b in the root. *)
EXTENDS Files, TLC

MCUp == ("d" :> "root") @@ ("a" :> "d") @@ ("b" :> "root")

================================================================================
