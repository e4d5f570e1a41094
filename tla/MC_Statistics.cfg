SPECIFICATION StatsSpec
CONSTANTS
  BookingFact <- MCBookingFact
  HoursFact <- MCHoursFact
  Barber = {"k1"}
  Price <- MCPrice
  Length <- MCLength
  TopLimit = 1
  Paging <- MCPaging
  Custom <- MCCustom
  FirstDays <- MCFirstDays
  Opening <- MCOpening
  Closing <- MCClosing
  MaxRows = 2
  MaxHours = 2
  NoAnswer = NoAnswer
INVARIANTS
  CountsAreTrue
  AnswerAgrees
  CalendarsAgree
