SPECIFICATION Spec
CONSTANTS
  Uses <- MCUses
  Manners = {"alike", "starts", "drawable", "caps", "stores", "types"}
INVARIANTS
  TypeOK
  NothingLost
  FirstErrorReported
