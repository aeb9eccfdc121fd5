---------------------------- MODULE MCCheckCache ----------------------------
(* Small instances of CheckCache: requests are named for their kind.       *)
EXTENDS CheckCache, TLC

MCKind == [r \in Req |->
  CASE r \in {"a.h", "sys/b.h", "sys_b.h"} -> "header"
    [] r = "func2 poll"  -> "decl"
    [] r = "type off_t"  -> "type"
    [] r = "sizeof long" -> "sizeof"
    [] r = "dlopen dl"   -> "funclib"
    [] r = "mytest"      -> "custom"
    [] r = "gawk"        -> "prog"
    [] r = "cc"          -> "compiler"]

(* tr /. __ : both headers are kept in _mkc_header_sys_b_h.*               *)
MCKeyOf == [r \in Req |-> IF r \in {"sys/b.h", "sys_b.h"} THEN "sys_b_h" ELSE r]
MCKeys == {MCKeyOf[r] : r \in Req}

MCFullOrder == <<"4", "8", "2", "1", "16", "12", "3", "5", "6", "7",
                 "9", "10", "11", "13", "14", "15">>
MCShortOrder == <<"4", "8">>

AllButWrite == PCs \ {"write"}
=============================================================================
