------------------------------- MODULE MCConfig -------------------------------
(***************************************************************************)
(* One property of each type, and a string without a default; an operator  *)
(* writes a good and a bad value, or none.                                 *)
(***************************************************************************)
EXTENDS Config, TLC

MCProperty == {"pvp", "difficulty", "motd", "ip", "port"}

MCType ==
  ("pvp" :> "bool") @@ ("difficulty" :> "estr") @@ ("motd" :> "str")
    @@ ("ip" :> "str") @@ ("port" :> "num")

MCDefault ==
  ("pvp" :> TRUE) @@ ("difficulty" :> 1) @@ ("motd" :> "Server")
    @@ ("ip" :> NoString) @@ ("port" :> 25565)

MCMapping ==
  "difficulty" :> <<[name |-> "easy", value |-> 1], [name |-> "hard", value |-> 3]>>

MCTexts ==
  ("pvp" :> {"true", "false", "yes"}) @@ ("difficulty" :> {"easy", "hard", "none"})
    @@ ("motd" :> {"", "Hello", "Again"}) @@ ("ip" :> {"", "::1"})
    @@ ("port" :> {"many", "80", "25565"})

MCNumberOf == ("80" :> 80) @@ ("25565" :> 25565)
=============================================================================
