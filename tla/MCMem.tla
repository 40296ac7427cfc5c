--------------------------------- MODULE MCMem ---------------------------------
(* An instance of Mem: a range of one page, used up by the first extension, and *)
(* one of two pages, with a hole between them.  Two pages below the first range *)
(* are nobody's: a request for two pages that finds only single ones gets them. *)
EXTENDS Mem

MCRanges == <<[addr |-> 2, pages |-> 1], [addr |-> 4, pages |-> 2]>>

================================================================================
