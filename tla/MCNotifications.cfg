SPECIFICATION Spec
CONSTANTS
  l1 = l1
  link = l1
  Link = {l1}
  Index = {1, 2}
  Conn = {1, 2}
  DelayId = {1, 2}
  MaxEvents = 1
INVARIANTS Agreement ApiFollows RequestUnderWay HandlersAgree
PROPERTY MismatchesKnown
CONSTRAINT BeforeMismatch
