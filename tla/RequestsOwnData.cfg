\* A slot that changes hands; the first userPk is 0, so nothing comes from garbage.
SPECIFICATION Spec
CONSTANTS
  Slots = {s1}
  Users = {ann, bob}
  Stranger = eve
  NoUser = zero
  FirstPks = {zero}
  RingSize = 8
  Window = 1
  Asked = {"USERINFO", "USERDATA"}
  MaxConns = 2
  MaxRequests = 3
INVARIANTS OwnDataOnly
CHECK_DEADLOCK FALSE
