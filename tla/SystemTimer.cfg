SPECIFICATION SystemSpec
CONSTANTS
  Word = 32
  Scale = 3
  MaxMs = 10
  SettleTime = 3
  Alarms = {jtag}
  Periods = {5, 30}
PROPERTIES SettlesLongEnough SettleEndsBeforeWrap ImplementsClock AlarmsOnTime SettlesInRealTime
