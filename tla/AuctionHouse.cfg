SPECIFICATION Spec
CONSTANTS
  seller = seller
  reader = reader
  writer = writer
  sword = sword
  Players <- ThreePlayers
  Items <- OneItem
  None = None
  Postage = 3
  MaxPrice = 2
  MailPrice = 1
  Starts <- MailOrAuctions
  MaxMails = 3
  MayWrite <- WriterToReader
  MayLogout = {reader}
  MaxStops = 1
  Deposit = 6
  CutPercent = 50
INVARIANT
  Inv
PROPERTY
  EstateSpec
