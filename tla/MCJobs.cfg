\* Thursday to Sunday: crons up to three hours late or dropped, two faults.
SPECIFICATION Spec
CONSTANTS
  FirstDay = 4
  Moments = {26, 28, 29, 34}
  Horizon <- ThursdayToSunday
  Crons = {2, 4}
  MaxLate = 6
  TimeLimit = 1
  Stoppable = {"lineup"}
  Talkative = {"lineup"}
  Window = 144
  MaxFaults = 2
CHECK_DEADLOCK FALSE
INVARIANT TypeOK
PROPERTIES
  GreenMeansCovered
  OnlyLateMailsSilence
