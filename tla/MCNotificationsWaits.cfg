SPECIFICATION Spec
CONSTANTS
  l1 = l1
  link = l1
  Link = {l1}
  Index = {1, 2}
  Conn = {1}
  DelayId = {1, 2, 3}
  MaxEvents = 2
PROPERTY WaitsEnd
