\* The entry of lidar 1 has nothing but its address.
CONSTANTS
  Lidars = {1}
  Settings <- MCSettings
  Wanted <- MCWantNothing
  MaxLidars = 2
  MaxReports = 1
SPECIFICATION FairSpec
PROPERTIES DefaultsSuffice
CHECK_DEADLOCK FALSE
