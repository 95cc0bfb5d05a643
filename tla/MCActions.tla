------------------------------ MODULE MCActions ------------------------------
(* Three or four actions, two of one name, and what users may type.        *)
EXTENDS ActionsInvariant

CONSTANT WordLength

Entry(kind, name) == [kind |-> kind, name |-> name]

MCEntries == { Entry("program", <<1, 2>>), Entry("folder", <<1, 2>>),
               Entry("program", <<3, 1>>), Entry("program", <<1, 2, 3>>),
               Entry("bare", <<1>>) }

MCInstalled == { MCEntries \ {Entry("folder", <<1, 2>>)},
                 {Entry("program", <<1, 2>>), Entry("folder", <<1, 2>>), Entry("bare", <<1>>)},
                 {Entry("bare", <<1>>)} }

Word(w) == [kind |-> "word", name |-> w]
Option(o) == [kind |-> "option", name |-> o]

Words == {Word(w) : w \in UNION {[1 .. n -> {1, 2, 3}] : n \in 0 .. WordLength}}

MCCommandLines == {<<w>> : w \in Words}
  \cup { <<>>, <<Option("help")>>, <<Option("--")>>, <<Option("invalid")>>,
         <<Option("help"), Word(<<1, 2>>)>>, <<Option("--"), Word(<<1, 2>>)>>,
         <<Word(<<1, 2>>), Option("help")>> }
=============================================================================
