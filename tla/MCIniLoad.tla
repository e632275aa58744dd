----------------------------- MODULE MCIniLoad -----------------------------
(* IniLoad with one line of every kind, a second section and a second value *)
(* of the same key, in files of up to four lines.                           *)
EXTENDS IniLoad

MCParts ==
    {[is |-> kind] : kind \in {"blank", "comment", "brackets", "text"}}
      \cup {[is |-> "section", name |-> s] : s \in {"iot", "dev"}}
      \cup {[is |-> "value", key |-> "k", val |-> v] : v \in {"v", "w"}}

\* A line of two parts leaves three characters.
MCCut(s, n) ==
    CASE n = 1 /\ s = "iot" -> "i" [] n = 1 /\ s = "dev" -> "d" [] OTHER -> s
=============================================================================
