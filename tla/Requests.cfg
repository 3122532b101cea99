\* A slot with successive clients; requests cut, joined and refused by a full ring;
\* a userPk that no login has set happens to be an account.
SPECIFICATION FairSpec
CONSTANTS
  Slots = {s1}
  Users = {ann}
  Stranger = eve
  NoUser = zero
  FirstPks = {ann}
  RingSize = 3
  Window = 2
  Asked = {"USERINFO", "USERDATA", "GAMESTART", "LOGINRESPONSE", "OTHER"}
  MaxConns = 2
  MaxRequests = 3
INVARIANTS TypeOK Framing HandlersDefined  ServedAsLastLogin
PROPERTIES ImplementsService
CHECK_DEADLOCK FALSE
