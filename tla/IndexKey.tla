------------------------------ MODULE IndexKey -------------------------------
(***************************************************************************)
(* The key an object has in an index of the native engine, as create_key   *)
(* builds it with IndexKey: the values of the properties one after the     *)
(* other, integers with a fixed width and strings without a length or an   *)
(* end.  Only whether two keys are equal matters: nothing reads the order. *)
(*                                                                         *)
(* The width is one cell, as in NativeObject.  A key that is hashed, or    *)
(* too long, has the hash of all its bytes; the hash is taken to tell any  *)
(* two byte strings apart, so a hashed key is equal to another one exactly *)
(* when their bytes are.                                                   *)
(***************************************************************************)
EXTENDS NativeObject

\* Mutant: a null takes no place in the key.
AddIntUnlessNull(key, value) ==
  IF value = Null THEN [key EXCEPT !.null = TRUE]
  ELSE [key EXCEPT !.bytes = Append(@, value)]

AddInt(key, value) ==
  IF value = Null THEN [bytes |-> Append(key.bytes, NullInt), null |-> TRUE]
  ELSE [key EXCEPT !.bytes = Append(@, value)]

\* No string is a zero byte and the empty string a one.
AddString(key, value) ==
  IF value = Null THEN [bytes |-> Append(key.bytes, 0), null |-> TRUE]
  ELSE [key EXCEPT !.bytes = @ \o (IF value = <<>> THEN <<1>> ELSE value)]

CreateKey(types, values) ==
  LET upTo[n \in 0..Len(values)] ==
        IF n = 0 THEN [bytes |-> <<>>, null |-> FALSE]
        ELSE IF types[n] = "int" THEN AddInt(upTo[n - 1], values[n])
        ELSE AddString(upTo[n - 1], values[n])
  IN upTo[Len(values)]
=============================================================================
