----------------------------- MODULE MCHTMLObject -----------------------------
(* HTMLObject with a few of the elements of each kind the code tells apart. *)
EXTENDS HTMLObject

CONSTANT Tags     \* the elements the documents use

start_element(t, attrs) == [ op |-> "start_element", tag |-> t, attrs |-> attrs ]

Plain   == { start_element(t, << >>) : t \in Tags }
Anchors == IF "A" \notin Tags THEN {}
           ELSE { start_element("A", a) : a \in
                    { "HREF" :> "doc", "HREF" :> NULL, "NAME" :> "x",
                      ("HREF" :> "doc") @@ ("TITLE" :> "t"),
                      ("NAME" :> "x") @@ ("TITLE" :> "t"),
                      ("NAME" :> "x") @@ ("HREF" :> "doc") } }
Lists   == IF "DL" \notin Tags THEN {}
           ELSE { start_element("DL", "COMPACT" :> NULL) }

MCCalls ==
  Plain \cup Anchors \cup Lists
  \cup { [ op |-> "end_element", tag |-> t ] : t \in Tags }
  \cup { [ op |-> "put_character", c |-> c ] : c \in { "x", " ", "\n" } }
  \cup { [ op |-> o ] : o \in { "free", "abort", "new", "return" } }
  \cup { [ op |-> "put_entity", entity |-> "amp" ] }

=============================================================================
