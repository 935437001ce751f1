--------------------------- MODULE InternalAddress ---------------------------
(***************************************************************************)
(* The addresses of routers in the internal network (gen_internal_ip of    *)
(* net/router.c): the two last bytes of 172.20.0.0/16, as <<third,         *)
(* fourth>>.                                                               *)
(***************************************************************************)
EXTENDS Integers, Sequences

CONSTANT MaxByte   \* 254: the largest value either byte takes
ASSUME MaxByteAssumption == MaxByte \in Nat \ {0}

Bytes == (0..MaxByte) \X (0..MaxByte)

(* The address of the server (conn_manager.c), the last one.               *)
ServerAddress == <<MaxByte, MaxByte>>

(* What addr holds when the function returns without writing it.           *)
Unset == <<-1, -1>>

Exhausted(last) == last = <<MaxByte, MaxByte>>

(* A bug: the third byte does not move. *)
NextBytes_Wraps(last) ==
    IF last[2] < MaxByte THEN <<last[1], last[2] + 1>> ELSE <<last[1], 1>>

(* internal_last_bytes after a call.                                       *)
NextBytes(last) ==
    IF last[2] < MaxByte THEN <<last[1], last[2] + 1>>
    ELSE IF last[1] = MaxByte THEN last
    ELSE <<last[1] + 1, 1>>

gen_internal_ip(last) == IF Exhausted(last) THEN Unset ELSE NextBytes(last)
=============================================================================
