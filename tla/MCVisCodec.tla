---------------------------- MODULE MCVisCodec ------------------------------
(* Bytes of every kind vis and unvis tell apart, and names with common     *)
(* beginnings: aacute acirc acute aelig amp frac12 frac14 frac34 uml uuml. *)
EXTENDS VisCodec

(* What the theorems ask of flags and names.                               *)
ASSUME MCDecodable == NamesRight /\ \A f \in FlagSets : Decodable(f)

MCBytes == {0, 1, 7, 9, 10, 13, 27, 32, 35, 37, 38, 42, 45, 48, 55, 57, 61, 63, 70, 92,
            94, 97, 110, 127, 128, 138, 160, 190, 255}
MCFlagSets == {{}, {"octal"}, {"cstyle"}, {"sp", "tab", "nl"}, {"cstyle", "sp", "tab", "nl"}, {"safe"},
               {"glob"}, {"octal", "glob", "svis"}, {"svis"}, {"httpstyle"}, {"httpstyle", "svis"}, {"http1866"}, {"mimestyle"},
               {"mimestyle", "safe", "svis"}, {"mimestyle", "cstyle", "nl"}}
MCNames == <<
  <<<<97, 97, 99, 117, 116, 101>>, 225>>, <<<<97, 99, 105, 114, 99>>, 226>>,
  <<<<97, 99, 117, 116, 101>>, 180>>, <<<<97, 101, 108, 105, 103>>, 230>>, <<<<97, 109, 112>>, 38>>,
  <<<<102, 114, 97, 99, 49, 50>>, 189>>, <<<<102, 114, 97, 99, 49, 52>>, 188>>,
  <<<<102, 114, 97, 99, 51, 52>>, 190>>, <<<<117, 109, 108>>, 168>>, <<<<117, 117, 109, 108>>, 252>> >>
=============================================================================
