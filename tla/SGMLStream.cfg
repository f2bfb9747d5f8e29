\* Elements of each content type, two that share attribute slot 0, words that
\* are an entity, an attribute or neither, and every mark the parser knows but
\* one: the two kinds of quotes are alike.
CONSTANTS
  Input = {"XMP", "DL", "TITLE", "NEXTID", "COMPACT", "N", "amp", "<", ">", "/", "&", "#", "=", "'", " "}
  Entities = {"amp"}
  MaxDepth = 2
SPECIFICATION Spec
INVARIANTS TypeOK TargetAgreesWithStack AttributesAreOfThisTag LiteralTextIsWhole
PROPERTY KeepsToTheProtocol
\* A null element stack read by an empty end tag ends the program.
CHECK_DEADLOCK FALSE
