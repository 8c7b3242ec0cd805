---------------------------- MODULE MCRetrieval ----------------------------
(* Searches of four rows of two tables and two threads, by every order of  *)
(* their vectors and indexes of five chunks of the three facts; and the    *)
(* text functions, on inputs of their own.                                 *)
EXTENDS Retrieval, Texts
CONSTANT t1

MCMemories == 1..4
MCTypeOf == <<"facts", "working", "facts", "facts">>
MCThreadOf == <<t1, t1, NoThread, t1>>
MCWords == <<1, 1, 2, 1>>
Injective(s) == \A i, j \in DOMAIN s : s[i] = s[j] => i = j
MCIndexes == {s \in UNION {[1..n -> MCMemories] : n \in {0, 3, 4}} : Injective(s)}
MCChunkIndexes == {s \in [1..5 -> {1, 3, 4}] : s[1] = 3}

allVars == <<retrievalVars, textVars>>
NoInput == [kind |-> "none"]
MCInit == \/ RetrievalInit /\ input = NoInput /\ output = NoOutput
          \/ /\ TextsInit
             /\ near = <<>> /\ chunked = FALSE /\ status = [a \in MCMemories |-> "absent"]
             /\ pc = "idle" /\ call = "search" /\ thread = NoThread
             /\ types = <<>> /\ ranked = {} /\ results = <<>> /\ quiet = TRUE
MCNext == \/ input.kind = "none" /\ RetrievalNext /\ UNCHANGED textVars
          \/ input.kind # "none" /\ Compute /\ UNCHANGED retrievalVars
MCSpec == MCInit /\ [][MCNext]_allVars
=============================================================================
