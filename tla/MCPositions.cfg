SPECIFICATION Spec
CONSTANTS
  Flights <- MCFlights
  FlightOf <- MCFlightOf
  Remarks <- MCRemarks
  MaxSteps = 3
INVARIANTS
  GlobalDecodeIsRight
  RelativeDecodeIsRight
  SurfacePairIsRight
  FieldsAreRight
CHECK_DEADLOCK FALSE
