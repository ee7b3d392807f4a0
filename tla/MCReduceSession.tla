-------------------------- MODULE MCReduceSession --------------------------
(* Configurations of the reducer.                                          *)
EXTENDS ReduceSession

Config(c, f, closet) == [compress |-> c, fold |-> f, closet |-> closet]

(* Both levers without a closet, and compression alone with one.           *)
Apart == {Config(TRUE, TRUE, FALSE), Config(TRUE, FALSE, TRUE)}

(* Everything on, as the gateway asks for it.                              *)
Together == {Config(TRUE, TRUE, TRUE)}

Price(guard, priced, horizon, input, write, read) ==
    [guard |-> guard, priced |-> priced, horizon |-> horizon,
     input |-> input, write |-> write, read |-> read]

(* The guard off, an unpriced model, writes that one read pays for, writes *)
(* that no horizon pays for, and reads without a discount.                 *)
Prices == {Price(FALSE, TRUE, 1, 4, 30, 1), Price(TRUE, FALSE, 1, 0, 0, 0),
           Price(TRUE, TRUE, 0, 4, 5, 1), Price(TRUE, TRUE, 9, 4, 30, 1),
           Price(TRUE, TRUE, 1, 4, 0, 4)}
=============================================================================
